---------------------------- MODULE Spec2Model ----------------------------
(***************************************************************************)
(* State-machine model of the authentication and authorization core of     *)
(* the school-management backend: password handling, JWT issue/decode,     *)
(* TOTP two-factor enrolment, the token blacklist, the access-control gate *)
(* (get_current_user / require_role), the database adapter and the         *)
(* /auth and /users routes that use them.                                  *)
(*                                                                         *)
(* Every HTTP handler is one action.  The clock `now` is in minutes.       *)
(* The variable `last` holds the request handled by the last step and the  *)
(* response it produced; it is how the properties observe a response.      *)
(***************************************************************************)
EXTENDS Integers, Sequences, FiniteSets, TLC

(* ------------------------------ bounds -------------------------------- *)

\* number of user ids (uuid4 values) the model hands out
MaxUsers == 1
\* number of token pairs the model lets login / refresh issue
MaxIssues == 1
\* number of clock advances
MaxTicks == 1
\* number of tokens given to TokenBlacklist.add_token
MaxRevoked == 1
\* number of handler invocations in progress at once
MaxCalls == 2
\* number of documents inserted when the adapters are driven directly
MaxDocs == 2
\* length of the longest password validate_password_strength is applied to
MaxLen == 9

(* ------------------------ configuration (config.py) -------------------- *)

JWT_ACCESS_TOKEN_EXPIRE_MINUTES == 30
JWT_REFRESH_TOKEN_EXPIRE_DAYS == 7
PASSWORD_MIN_LENGTH == 8
BCRYPT_ROUNDS == 12
ENABLE_2FA == TRUE
\* the two values get_database accepts for settings.DATABASE_TYPE
DatabaseTypes == {"mongodb", "postgresql"}

\* Python's None, for the Optional fields of UserModel
None == -1

(* ------------------------------- roles -------------------------------- *)

SUPERADMIN == "superadmin"
ADMIN == "admin"
HEADMASTER == "headmaster"
TEACHER == "teacher"
STUDENT == "student"
PARENT == "parent"
FINANCE == "finance"
STAFF == "staff"
LIBRARIAN == "librarian"

valid_roles ==
    {SUPERADMIN, ADMIN, HEADMASTER, TEACHER, STUDENT, PARENT, FINANCE, STAFF, LIBRARIAN}

(* ----------------------------- passwords ------------------------------ *)
\* A password is a sequence of one-character strings.

UpperChars ==
    {"A","B","C","D","E","F","G","H","I","J","K","L","M",
     "N","O","P","Q","R","S","T","U","V","W","X","Y","Z"}
DigitChars == {"0","1","2","3","4","5","6","7","8","9"}
SpecialChars ==
    {"!","@","#","$","%","^","&","*","(",")","_","+","-","=",
     "[","]","{","}","|",";",":",",",".","<",">","?"}

\* a validation that looks for a digit before it looks for an uppercase letter
validate_password_strength_digit_first(password) ==
    LET has_upper   == \E i \in 1..Len(password) : password[i] \in UpperChars
        has_digit   == \E i \in 1..Len(password) : password[i] \in DigitChars
        has_special == \E i \in 1..Len(password) : password[i] \in SpecialChars
    IN  IF Len(password) < PASSWORD_MIN_LENGTH
          THEN [ok |-> FALSE, message |-> "Password must be at least 8 characters"]
        ELSE IF ~has_digit
          THEN [ok |-> FALSE, message |-> "Password must contain at least one number"]
        ELSE IF ~has_upper
          THEN [ok |-> FALSE, message |-> "Password must contain at least one uppercase letter"]
        ELSE IF ~has_special
          THEN [ok |-> FALSE, message |-> "Password must contain at least one special character"]
        ELSE [ok |-> TRUE, message |-> "Password is strong"]

\* PasswordHandler.validate_password_strength: (ok, message)
validate_password_strength(password) ==
    LET has_upper   == \E i \in 1..Len(password) : password[i] \in UpperChars
        has_digit   == \E i \in 1..Len(password) : password[i] \in DigitChars
        has_special == \E i \in 1..Len(password) : password[i] \in SpecialChars
    IN  IF Len(password) < PASSWORD_MIN_LENGTH
          THEN [ok |-> FALSE, message |-> "Password must be at least 8 characters"]
        ELSE IF ~has_upper
          THEN [ok |-> FALSE, message |-> "Password must contain at least one uppercase letter"]
        ELSE IF ~has_digit
          THEN [ok |-> FALSE, message |-> "Password must contain at least one number"]
        ELSE IF ~has_special
          THEN [ok |-> FALSE, message |-> "Password must contain at least one special character"]
        ELSE [ok |-> TRUE, message |-> "Password is strong"]

\* PasswordHandler.hash_password: a bcrypt hash is not the password; it
\* records the cost and what it is a digest of (the random salt is left out:
\* checkpw accepts the hash whatever salt gensalt drew).
hash_password(password) ==
    [alg |-> "bcrypt", rounds |-> BCRYPT_ROUNDS, digest_of |-> password]

\* PasswordHandler.verify_password: bcrypt.checkpw
verify_password(plain_password, hashed_password) ==
    hashed_password = hash_password(plain_password)

(* ------------------------------- tokens ------------------------------- *)
\* A bearer credential is a record.  form = "signed": a JWT signed with
\* JWT_SECRET_KEY; "forged": a JWT signed with another key; "malformed": not
\* a JWT at all; "missing": the request has no Authorization header.

Token(form, user_id, email, role, type, iat, exp) ==
    [form |-> form, user_id |-> user_id, email |-> email, role |-> role,
     type |-> type, iat |-> iat, exp |-> exp]

Missing == Token("missing", 0, "", "", "", 0, 0)
Malformed == Token("malformed", 0, "", "", "", 0, 0)

\* JWTHandler.create_access_token (expires_delta is never passed)
create_access_token(data, t) ==
    Token("signed", data.user_id, data.email, data.role, "access",
          t, t + JWT_ACCESS_TOKEN_EXPIRE_MINUTES)

\* JWTHandler.create_refresh_token
create_refresh_token(data, t) ==
    Token("signed", data.user_id, data.email, data.role, "refresh",
          t, t + JWT_REFRESH_TOKEN_EXPIRE_DAYS * 24 * 60)

\* JWTHandler.decode_token.  jwt.decode checks the signature first and then
\* exp (expired when exp <= now).  An expired token is caught by the first
\* except clause (401).  Every other failure reaches the second clause,
\* `except jwt.JWTError`; the module imported as `jwt` has no attribute
\* JWTError, so evaluating the clause raises AttributeError, which is no
\* HTTPException: kind "error".
\* On success it returns the payload: the claims the token was made from.
decode_token(token, t) ==
    IF token.form = "signed"
      THEN IF token.exp <= t
             THEN [kind |-> "http", status |-> 401, detail |-> "Token has expired"]
             ELSE [kind |-> "ok", status |-> 200, detail |-> "",
                   payload |-> [user_id |-> token.user_id, email |-> token.email,
                                role |-> token.role, exp |-> token.exp,
                                iat |-> token.iat, type |-> token.type]]
      ELSE [kind |-> "error", status |-> 500, detail |-> "AttributeError"]

(* -------------------------------- TOTP -------------------------------- *)
\* A TOTP code is what an authenticator holding `secret` shows at the
\* 30-second time step `step`.  NoCode is an absent totp_token.

TotpCode(secret, step) == [secret |-> secret, step |-> step]
NoCode == TotpCode(None, None)

\* the 30-second time step the clock (minutes) is in
TimeStep(t) == t * 2

\* TwoFactorAuth.verify_totp: pyotp.TOTP(secret).verify(token, valid_window=1).
\* With secret None, pyotp fails decoding the secret (TypeError): raised.
verify_totp(secret, token, t) ==
    IF secret = None
      THEN [raised |-> TRUE, ok |-> FALSE]
      ELSE [raised |-> FALSE,
            ok |-> /\ token.secret = secret
                   /\ \E i \in -1..1 : token.step = TimeStep(t) + i]

(* --------------------------- database adapter -------------------------- *)
\* A database is a function from collection names to sequences of documents
\* (insertion order).  A query is one equality, [field, value], as in every
\* call the routes make.  The PostgreSQL adapter's generic methods are the
\* stubs of base.py: they store and find nothing.

EmptyDb == [users |-> <<>>, refresh_tokens |-> <<>>]

Query(field, value) == [field |-> field, value |-> value]

Matches(doc, query) ==
    query.field \in DOMAIN doc /\ doc[query.field] = query.value

\* index of the first document of the collection matching the query, 0 if none
FirstMatch(docs, query) ==
    IF \E i \in 1..Len(docs) : Matches(docs[i], query)
      THEN CHOOSE i \in 1..Len(docs) :
             /\ Matches(docs[i], query)
             /\ \A j \in 1..(i - 1) : ~Matches(docs[j], query)
      ELSE 0

\* insert_one: the database after the call
insert_one(dbtype, d, collection, document) ==
    IF dbtype = "mongodb"
      THEN [d EXCEPT ![collection] = Append(@, document)]
      ELSE d

\* find_one: [found, doc]
find_one(dbtype, d, collection, query) ==
    LET i == FirstMatch(d[collection], query)
    IN  IF dbtype = "mongodb" /\ i # 0
          THEN [found |-> TRUE, doc |-> d[collection][i]]
          ELSE [found |-> FALSE, doc |-> [id |-> None]]

\* $set: the document with the fields of `update` written over it
SetFields(doc, update) ==
    [f \in (DOMAIN doc) \cup (DOMAIN update) |->
        IF f \in DOMAIN update THEN update[f] ELSE doc[f]]

\* an update_one that answers with matched_count > 0
update_one_matched(dbtype, d, collection, query, update) ==
    LET i == FirstMatch(d[collection], query)
    IN  IF dbtype = "mongodb" /\ i # 0
          THEN [db |-> [d EXCEPT ![collection][i] = SetFields(d[collection][i], update)],
                ok |-> TRUE]
          ELSE [db |-> d, ok |-> FALSE]

\* update_one: [db, ok]; ok is result.modified_count > 0, and MongoDB counts
\* a matched document as modified only when $set changed it.
update_one(dbtype, d, collection, query, update) ==
    LET i == FirstMatch(d[collection], query)
    IN  IF dbtype = "mongodb" /\ i # 0
          THEN LET new == SetFields(d[collection][i], update)
               IN  [db |-> [d EXCEPT ![collection][i] = new],
                    ok |-> new # d[collection][i]]
          ELSE [db |-> d, ok |-> FALSE]

\* a dict after dict.pop / del of the given fields, where present
Pop(update_data, fields) ==
    [f \in (DOMAIN update_data) \ fields |-> update_data[f]]

\* the sequence without its i-th element
RemoveAt(docs, i) ==
    [k \in 1..(Len(docs) - 1) |-> IF k < i THEN docs[k] ELSE docs[k + 1]]

\* delete_one: [db, ok]; ok is result.deleted_count > 0
delete_one(dbtype, d, collection, query) ==
    LET i == FirstMatch(d[collection], query)
    IN  IF dbtype = "mongodb" /\ i # 0
          THEN [db |-> [d EXCEPT ![collection] = RemoveAt(@, i)], ok |-> TRUE]
          ELSE [db |-> d, ok |-> FALSE]

\* what insert_one returns: the generated id as a string, or the constant
inserted_id(dbtype) ==
    IF dbtype = "mongodb" THEN "str(result.inserted_id)" ELSE "postgres_id"

\* a find_many query is a set of equalities (the empty set is {})
MatchesAll(doc, queries) == \A query \in queries : Matches(doc, query)

\* find_many: the first `limit` matching documents, in insertion order
find_many(dbtype, d, collection, queries, limit) ==
    LET Test(doc) == MatchesAll(doc, queries)
        matching == SelectSeq(d[collection], Test)
    IN  IF dbtype = "mongodb"
          THEN SubSeq(matching, 1, IF Len(matching) < limit THEN Len(matching) ELSE limit)
          ELSE <<>>

(* -------------------------- access-control gate ------------------------ *)

HttpError(status, detail) == [kind |-> "http", status |-> status, detail |-> detail]
Passed == [kind |-> "ok", status |-> 200, detail |-> ""]

\* TokenBlacklist.is_blacklisted
is_blacklisted(bl, token) == token \in bl

\* TokenBlacklist.add_token (expires_at is not used)
add_token(bl, token) == bl \cup {token}

\* a gate that does not consult the blacklist
get_current_user_unrevoked(credentials, bl, t) ==
    IF credentials.form = "missing"
      THEN HttpError(401, "Not authenticated")
    ELSE IF decode_token(credentials, t).kind # "ok"
      THEN decode_token(credentials, t)
    ELSE IF credentials.type # "access"
      THEN HttpError(401, "Invalid token type")
    ELSE Passed

\* get_current_user, with the HTTPBearer dependency that feeds it: a request
\* without bearer credentials never reaches the function body.
get_current_user(credentials, bl, t) ==
    IF credentials.form = "missing"
      THEN HttpError(401, "Not authenticated")
    ELSE IF is_blacklisted(bl, credentials)
      THEN HttpError(401, "Token has been revoked")
    ELSE IF decode_token(credentials, t).kind # "ok"
      THEN decode_token(credentials, t)
    ELSE IF credentials.type # "access"
      THEN HttpError(401, "Invalid token type")
    ELSE Passed

\* require_role(allowed_roles): role_checker runs on get_current_user's result
\* a role check in which superadmin stands above every allow-list
require_role_hierarchy(allowed_roles, credentials, bl, t) ==
    LET current_user == get_current_user(credentials, bl, t)
    IN  IF current_user.kind # "ok"
          THEN current_user
        ELSE IF credentials.role \notin allowed_roles \cup {SUPERADMIN}
          THEN HttpError(403, "Insufficient permissions")
        ELSE Passed

require_role(allowed_roles, credentials, bl, t) ==
    LET current_user == get_current_user(credentials, bl, t)
    IN  IF current_user.kind # "ok"
          THEN current_user
        ELSE IF credentials.role \notin allowed_roles
          THEN HttpError(403, "Insufficient permissions")
        ELSE Passed

\* What the client receives for an outcome: an HTTPException keeps its
\* status; any other exception reaches server.py's global_exception_handler.
global_exception_handler(outcome) ==
    IF outcome.kind = "error"
      THEN [outcome EXCEPT !.status = 500, !.detail = "Internal server error"]
      ELSE outcome

(* ------------------------------- inputs ------------------------------- *)

Emails == {"alice@example.com", "bob@example.com"}

Passw0rd == <<"P","a","s","s","w","0","r","d","!">>
OtherPassword == <<"A","b","c","d","e","f","g","1","!">>
NoSymbolPassword == <<"A","b","c","d","e","f","g","1">>
ShortPassword == <<"A","b","1","!">>

\* the bodies POST /auth/register is called with: [email, password, role]
RegisterInputs ==
    { [email |-> "alice@example.com", password |-> Passw0rd, role |-> SUPERADMIN],
      [email |-> "bob@example.com", password |-> Passw0rd, role |-> STUDENT],
      [email |-> "bob@example.com", password |-> NoSymbolPassword, role |-> STUDENT],
      [email |-> "bob@example.com", password |-> ShortPassword, role |-> STUDENT],
      [email |-> "bob@example.com", password |-> Passw0rd, role |-> "janitor"] }

\* the passwords POST /auth/login is called with
LoginPasswords == {Passw0rd, OtherPassword}

\* the secrets generate_secret can draw
Secrets == {1, 2}

\* the codes a client can submit at time t: none, or the code an
\* authenticator holding secret s shows one or two time steps from now
TotpInputs(t) ==
    {NoCode} \cup {TotpCode(s, TimeStep(t) + k) : s \in Secrets, k \in 1..2}

\* a JWT with superadmin claims signed with a key that is not JWT_SECRET_KEY
ForgedAdmin ==
    Token("forged", 1, "alice@example.com", SUPERADMIN, "access", 0,
          (MaxTicks + 1) * JWT_ACCESS_TOKEN_EXPIRE_MINUTES)

\* the JSON bodies PATCH /users/{id} is called with
NoBody == [f \in {} |-> None]
PatchBodies ==
    { [is_active |-> FALSE],
      [two_factor_enabled |-> TRUE, password_hash |-> hash_password(OtherPassword)] }

(* ------------------------------- state -------------------------------- *)

\* the settings of config.py that the payment routes and the exception
\* handler read
Settings(debug, payment_gateway) == [DEBUG |-> debug, PAYMENT_GATEWAY |-> payment_gateway]

\* the defaults of config.py
DefaultSettings == Settings(TRUE, "midtrans")

VARIABLES
    settings,       \* settings.DEBUG and settings.PAYMENT_GATEWAY, read from the environment
    database_type,  \* settings.DATABASE_TYPE, read once at startup
    db,             \* the database behind db_adapter
    blacklist,      \* TokenBlacklist._blacklist
    now,            \* the clock, in minutes
    next_id,        \* the next uuid4 value
    tokens,         \* the tokens issued so far (what clients hold)
    logged_out,     \* history: the tokens a successful logout was called with
    last,           \* the request being answered and its response, or Idle
    calls,          \* handler invocations in progress, each at its own await
    stores,         \* the store behind each adapter when both are driven directly
    answer          \* the last direct call of a function and what it returned

\* the variables only the step-by-step and the direct-call specifications use
direct_vars == <<calls, stores, answer>>

vars == <<settings, database_type, db, blacklist, now, next_id, tokens, logged_out, last,
          calls, stores, answer>>

\* no direct call made yet
NoAnswer == [op |-> "", args |-> [none |-> TRUE], value |-> [none |-> TRUE]]

NoRequest ==
    [op |-> "", credentials |-> Missing, email |-> "", password |-> <<>>,
     totp_token |-> NoCode, role |-> "", user_id |-> 0, body |-> NoBody,
     secret |-> None]

\* the HTTP response: status, detail, the tokens of a TokenResponse and the
\* user documents of the body (none here)
Response(outcome, issued) ==
    [status |-> global_exception_handler(outcome).status,
     detail |-> global_exception_handler(outcome).detail,
     tokens |-> issued,
     data |-> <<>>]

\* the response of a route that returns user documents
DataResponse(outcome, data) ==
    [Response(outcome, {}) EXCEPT !.data = IF outcome.kind = "ok" THEN data ELSE <<>>]

\* the fields of UserResponseSchema that the model's user record carries
UserResponseFields == {"id", "email", "role", "is_active", "two_factor_enabled"}

\* response_model=UserResponseSchema: only the schema's fields are serialized
UserResponseSchema(user) ==
    [f \in UserResponseFields \cap DOMAIN user |-> user[f]]

\* a mask that deletes two_factor_secret alone
SanitizedSecretOnly(user) == Pop(user, {"two_factor_secret"})

\* the `del user[...]` lines of get_current_user_info, list_users and get_user
Sanitized(user) == Pop(user, {"password_hash", "two_factor_secret"})

Idle == [request |-> NoRequest, response |-> Response(Passed, {})]

\* the bearer credentials a client can present
Credentials == {Missing, Malformed, ForgedAdmin} \cup tokens

\* a request to a protected route: only a request that passes the gate has
\* its other inputs read by the handler
GatedRequest(op, credentials, gate, inputs) ==
    IF gate.kind = "ok"
      THEN [inputs EXCEPT !.op = op, !.credentials = credentials]
      ELSE [NoRequest EXCEPT !.op = op, !.credentials = credentials]

Init ==
    /\ settings = DefaultSettings
    /\ database_type \in DatabaseTypes
    /\ db = EmptyDb
    /\ blacklist = {}
    /\ now = 0
    /\ next_id = 1
    /\ tokens = {}
    /\ logged_out = {}
    /\ last = Idle
    /\ calls = <<>>
    /\ stores = [dbtype \in DatabaseTypes |-> EmptyDb]
    /\ answer = NoAnswer

(* ---------------------------- POST /auth/register ---------------------- *)

\* a user record that takes the least privileged role whatever was asked
UserModelAsStudent(id, email, password_hash, role) ==
    [id |-> id, email |-> email, password_hash |-> password_hash, role |-> STUDENT,
     is_active |-> TRUE, two_factor_enabled |-> FALSE, two_factor_secret |-> None,
     last_login |-> None]

\* UserModel(...).model_dump(), with the defaults of models/user.py
UserModel(id, email, password_hash, role) ==
    [id |-> id, email |-> email, password_hash |-> password_hash, role |-> role,
     is_active |-> TRUE, two_factor_enabled |-> FALSE, two_factor_secret |-> None,
     last_login |-> None]

\* min_length of UserRegisterSchema.password
REGISTER_PASSWORD_MIN_LENGTH == 8

\* the validation of the request body against UserRegisterSchema, which
\* FastAPI runs before the handler: a violation is answered 422
UserRegisterSchema(email, password, role) ==
    IF Len(password) < REGISTER_PASSWORD_MIN_LENGTH
      THEN HttpError(422, "String should have at least 8 characters")
      ELSE Passed

\* the checks of register_user, in the order of the code
register_check(dbtype, d, email, password, role) ==
    IF UserRegisterSchema(email, password, role).kind # "ok"
      THEN UserRegisterSchema(email, password, role)
    ELSE IF role \notin valid_roles
      THEN HttpError(400, "Invalid role. Must be one of: superadmin, admin, headmaster, teacher, student, parent, finance, staff, librarian")
    ELSE IF find_one(dbtype, d, "users", Query("email", email)).found
      THEN HttpError(400, "Email already registered")
    ELSE IF ~validate_password_strength(password).ok
      THEN HttpError(400, validate_password_strength(password).message)
    ELSE [Passed EXCEPT !.status = 201]

register_user(email, password, role) ==
    LET outcome == register_check(database_type, db, email, password, role)
        user == UserModel(next_id, email, hash_password(password), role)
    IN  /\ last = Idle
        /\ outcome.kind = "ok" => next_id <= MaxUsers
        /\ IF outcome.kind = "ok"
             THEN /\ db' = insert_one(database_type, db, "users", user)
                  /\ next_id' = next_id + 1
             ELSE UNCHANGED <<db, next_id>>
        /\ last' = [request |-> [NoRequest EXCEPT !.op = "register", !.email = email,
                                     !.password = password, !.role = role],
                    response |-> DataResponse(outcome,
                                    <<UserResponseSchema(Pop(user, {"password_hash"}))>>)]
        /\ UNCHANGED <<direct_vars, settings, database_type, blacklist, now, tokens, logged_out>>

(* ------------------------------ POST /auth/login ----------------------- *)

\* login checks that look at is_active before the password
login_check_active_first(dbtype, d, email, password, totp_token, t) ==
    LET found == find_one(dbtype, d, "users", Query("email", email))
        user_dict == found.doc
    IN  IF ~found.found
          THEN HttpError(401, "Invalid credentials")
        ELSE IF ~user_dict.is_active
          THEN HttpError(403, "Account is inactive")
        ELSE IF ~verify_password(password, user_dict.password_hash)
          THEN HttpError(401, "Invalid credentials")
        ELSE IF ~user_dict.two_factor_enabled
          THEN Passed
        ELSE IF totp_token = NoCode
          THEN HttpError(400, "2FA token required")
        ELSE IF verify_totp(user_dict.two_factor_secret, totp_token, t).raised
          THEN [kind |-> "error", status |-> 500, detail |-> "TypeError"]
        ELSE IF ~verify_totp(user_dict.two_factor_secret, totp_token, t).ok
          THEN HttpError(401, "Invalid 2FA token")
        ELSE Passed

\* login checks that do not look at is_active
login_check_no_active(dbtype, d, email, password, totp_token, t) ==
    LET found == find_one(dbtype, d, "users", Query("email", email))
        user_dict == found.doc
    IN  IF ~found.found
          THEN HttpError(401, "Invalid credentials")
        ELSE IF ~verify_password(password, user_dict.password_hash)
          THEN HttpError(401, "Invalid credentials")
        ELSE IF ~user_dict.two_factor_enabled
          THEN Passed
        ELSE IF totp_token = NoCode
          THEN HttpError(400, "2FA token required")
        ELSE IF verify_totp(user_dict.two_factor_secret, totp_token, t).raised
          THEN [kind |-> "error", status |-> 500, detail |-> "TypeError"]
        ELSE IF ~verify_totp(user_dict.two_factor_secret, totp_token, t).ok
          THEN HttpError(401, "Invalid 2FA token")
        ELSE Passed

\* the checks of login up to token creation, in the order of the code
login_check(dbtype, d, email, password, totp_token, t) ==
    LET found == find_one(dbtype, d, "users", Query("email", email))
        user_dict == found.doc
    IN  IF ~found.found
          THEN HttpError(401, "Invalid credentials")
        ELSE IF ~verify_password(password, user_dict.password_hash)
          THEN HttpError(401, "Invalid credentials")
        ELSE IF ~user_dict.is_active
          THEN HttpError(403, "Account is inactive")
        ELSE IF ~user_dict.two_factor_enabled
          THEN Passed
        ELSE IF totp_token = NoCode
          THEN HttpError(400, "2FA token required")
        ELSE IF verify_totp(user_dict.two_factor_secret, totp_token, t).raised
          THEN [kind |-> "error", status |-> 500, detail |-> "TypeError"]
        ELSE IF ~verify_totp(user_dict.two_factor_secret, totp_token, t).ok
          THEN HttpError(401, "Invalid 2FA token")
        ELSE Passed

\* token_data of login (from the user document) and of refresh_access_token
\* (from the payload)
TokenData(user_id, email, role) == [user_id |-> user_id, email |-> email, role |-> role]

\* what login does after the checks and the token creation: it builds a
\* RefreshTokenModel, which no insert_one is called with, and writes last_login
login_effect(dbtype, d, user_dict, refresh_token, t) ==
    update_one(dbtype, d, "users", Query("id", user_dict.id), [last_login |-> t]).db

login(email, password, totp_token) ==
    LET outcome == login_check(database_type, db, email, password, totp_token, now)
        user_dict == find_one(database_type, db, "users", Query("email", email)).doc
        token_data == TokenData(user_dict.id, user_dict.email, user_dict.role)
        access_token == create_access_token(token_data, now)
        refresh_token == create_refresh_token(token_data, now)
        issued == IF outcome.kind = "ok" THEN {access_token, refresh_token} ELSE {}
    IN  /\ last = Idle
        /\ Cardinality(tokens \cup issued) <= 2 * MaxIssues
        /\ db' = IF outcome.kind = "ok"
                   THEN login_effect(database_type, db, user_dict, refresh_token, now)
                   ELSE db
        /\ tokens' = tokens \cup issued
        /\ last' = [request |-> [NoRequest EXCEPT !.op = "login", !.email = email,
                                     !.password = password, !.totp_token = totp_token],
                    response |-> Response(outcome, issued)]
        /\ UNCHANGED <<direct_vars, settings, database_type, blacklist, now, next_id, logged_out>>

(* ----------------------------- POST /auth/refresh ---------------------- *)

\* a refresh check that does not look at the token type
refresh_check_any_type(refresh_token, t) ==
    IF decode_token(refresh_token, t).kind # "ok"
      THEN HttpError(401, "Invalid or expired refresh token")
      ELSE Passed

\* a refresh that looks the user up and turns away the tokens of a user who
\* is no longer stored or no longer active
refresh_check_stored_user(refresh_token, t) ==
    LET user == find_one(database_type, db, "users", Query("id", refresh_token.user_id))
    IN  IF \/ decode_token(refresh_token, t).kind # "ok"
           \/ refresh_token.type # "refresh"
           \/ ~user.found
           \/ ~user.doc.is_active
          THEN HttpError(401, "Invalid or expired refresh token")
          ELSE Passed

\* a refresh that turns away the tokens of a user who has logged out
refresh_check_logged_out(refresh_token, t) ==
    IF \/ decode_token(refresh_token, t).kind # "ok"
       \/ refresh_token.type # "refresh"
       \/ \E token \in logged_out : token.user_id = refresh_token.user_id
      THEN HttpError(401, "Invalid or expired refresh token")
      ELSE Passed

\* the try block of refresh_access_token up to token creation; the handler's
\* `except Exception` turns every failure in it, the 401 it raises itself and
\* decode_token's failures alike, into one 401
refresh_check(refresh_token, t) ==
    IF decode_token(refresh_token, t).kind # "ok" \/ refresh_token.type # "refresh"
      THEN HttpError(401, "Invalid or expired refresh token")
      ELSE Passed

\* `cap` bounds the number of tokens in circulation
refresh_request(refresh_token, cap) ==
    LET outcome == refresh_check(refresh_token, now)
        token_data == TokenData(refresh_token.user_id, refresh_token.email,
                                refresh_token.role)
        issued == IF outcome.kind = "ok"
                    THEN {create_access_token(token_data, now),
                          create_refresh_token(token_data, now)}
                    ELSE {}
    IN  /\ last = Idle
        /\ Cardinality(tokens \cup issued) <= cap
        /\ tokens' = tokens \cup issued
        /\ last' = [request |-> [NoRequest EXCEPT !.op = "refresh",
                                     !.credentials = refresh_token],
                    response |-> Response(outcome, issued)]
        /\ UNCHANGED <<direct_vars, settings, database_type, db, blacklist, now, next_id, logged_out>>

refresh_access_token(refresh_token) == refresh_request(refresh_token, 2 * MaxIssues)

\* a refresh that may issue a pair at every instant of the clock
refresh_access_token_again(refresh_token) ==
    refresh_request(refresh_token, 2 * (MaxIssues + MaxTicks))

(* ------------------------------ POST /auth/logout ---------------------- *)

\* the body of logout: it returns its message; the blacklist is not touched
logout_effect(bl, token) == bl

\* `record` says whether the history variable logged_out is kept
logout_request(credentials, record) ==
    LET gate == get_current_user(credentials, blacklist, now)
    IN  /\ last = Idle
        /\ blacklist' = IF gate.kind = "ok" THEN logout_effect(blacklist, credentials)
                                            ELSE blacklist
        /\ logged_out' = IF gate.kind = "ok" /\ record THEN logged_out \cup {credentials}
                                                       ELSE logged_out
        /\ last' = [request |-> GatedRequest("logout", credentials, gate, NoRequest),
                    response |-> Response(gate, {})]
        /\ UNCHANGED <<direct_vars, settings, database_type, db, now, next_id, tokens>>

logout(credentials) == logout_request(credentials, FALSE)

logout_recorded(credentials) == logout_request(credentials, TRUE)

(* -------------------------------- GET /auth/me ------------------------- *)

get_current_user_info(credentials) ==
    LET gate == get_current_user(credentials, blacklist, now)
        user == find_one(database_type, db, "users", Query("id", credentials.user_id))
        outcome == IF gate.kind # "ok" THEN gate
                   ELSE IF ~user.found THEN HttpError(404, "User not found")
                   ELSE Passed
    IN  /\ last = Idle
        /\ last' = [request |-> GatedRequest("me", credentials, gate, NoRequest),
                    response |-> DataResponse(outcome,
                                    <<UserResponseSchema(Sanitized(user.doc))>>)]
        /\ UNCHANGED <<direct_vars, settings, database_type, db, blacklist, now, next_id, tokens, logged_out>>

(* ---------------------------- POST /auth/enable-2fa -------------------- *)

\* an enable_2fa that also switches two_factor_enabled on
enable_2fa_body_activating(dbtype, d, current_user, secret) ==
    [outcome |-> Passed,
     db |-> update_one(dbtype, d, "users", Query("id", current_user.user_id),
                       [two_factor_secret |-> secret, two_factor_enabled |-> TRUE]).db]

\* the body of enable_2fa: [outcome, db].  The result of update_one is not
\* looked at: the secret is returned whether or not a user was matched.
enable_2fa_body(dbtype, d, current_user, secret) ==
    IF ~ENABLE_2FA
      THEN [outcome |-> HttpError(400, "2FA is not enabled on this server"), db |-> d]
      ELSE [outcome |-> Passed,
            db |-> update_one(dbtype, d, "users", Query("id", current_user.user_id),
                              [two_factor_secret |-> secret]).db]

enable_2fa(credentials, secret) ==
    LET gate == get_current_user(credentials, blacklist, now)
        body == enable_2fa_body(database_type, db, credentials, secret)
    IN  /\ last = Idle
        /\ db' = IF gate.kind = "ok" THEN body.db ELSE db
        /\ last' = [request |-> GatedRequest("enable_2fa", credentials, gate,
                                    [NoRequest EXCEPT !.secret = secret]),
                    response |-> Response(IF gate.kind = "ok" THEN body.outcome ELSE gate, {})]
        /\ UNCHANGED <<direct_vars, settings, database_type, blacklist, now, next_id, tokens, logged_out>>

(* ---------------------------- POST /auth/verify-2fa -------------------- *)

\* a verify_2fa that switches two_factor_enabled on without checking the code
verify_2fa_body_unchecked(dbtype, d, current_user, token, t) ==
    LET user == find_one(dbtype, d, "users", Query("id", current_user.user_id))
    IN  IF ~user.found \/ user.doc.two_factor_secret = None
          THEN [outcome |-> HttpError(400, "2FA not initiated"), db |-> d]
          ELSE [outcome |-> Passed,
                db |-> update_one(dbtype, d, "users", Query("id", current_user.user_id),
                                  [two_factor_enabled |-> TRUE]).db]

\* the body of verify_2fa: [outcome, db]
verify_2fa_body(dbtype, d, current_user, token, t) ==
    LET user == find_one(dbtype, d, "users", Query("id", current_user.user_id))
    IN  IF ~user.found \/ user.doc.two_factor_secret = None
          THEN [outcome |-> HttpError(400, "2FA not initiated"), db |-> d]
        ELSE IF ~verify_totp(user.doc.two_factor_secret, token, t).ok
          THEN [outcome |-> HttpError(400, "Invalid 2FA token"), db |-> d]
        ELSE [outcome |-> Passed,
              db |-> update_one(dbtype, d, "users", Query("id", current_user.user_id),
                                [two_factor_enabled |-> TRUE]).db]

verify_2fa(credentials, token) ==
    LET gate == get_current_user(credentials, blacklist, now)
        body == verify_2fa_body(database_type, db, credentials, token, now)
    IN  /\ last = Idle
        /\ db' = IF gate.kind = "ok" THEN body.db ELSE db
        /\ last' = [request |-> GatedRequest("verify_2fa", credentials, gate,
                                    [NoRequest EXCEPT !.totp_token = token]),
                    response |-> Response(IF gate.kind = "ok" THEN body.outcome ELSE gate, {})]
        /\ UNCHANGED <<direct_vars, settings, database_type, blacklist, now, next_id, tokens, logged_out>>

(* -------------------------------- GET /users/ -------------------------- *)

\* the default of list_users' limit parameter
LIST_LIMIT_DEFAULT == 50

\* the query list_users builds from its role and is_active parameters; the
\* Optional[bool] is_active is the set of at most one boolean
list_users_query(role, is_active) ==
    (IF role # "" THEN {Query("role", role)} ELSE {})
      \cup {Query("is_active", v) : v \in is_active}

\* the body of list_users: the users of the response
list_users_body(dbtype, d, role, is_active, limit) ==
    LET users == find_many(dbtype, d, "users", list_users_query(role, is_active), limit)
    IN  [i \in 1..Len(users) |-> Sanitized(users[i])]

list_users(credentials, role, is_active, limit) ==
    LET gate == require_role({SUPERADMIN, ADMIN}, credentials, blacklist, now)
    IN  /\ last = Idle
        /\ last' = [request |-> GatedRequest("list_users", credentials, gate,
                                    [NoRequest EXCEPT !.role = role,
                                        !.body = list_users_query(role, is_active)]),
                    response |-> DataResponse(gate,
                                    list_users_body(database_type, db, role, is_active, limit))]
        /\ UNCHANGED <<direct_vars, settings, database_type, db, blacklist, now, next_id, tokens, logged_out>>

(* ------------------------------ GET /users/{id} ------------------------ *)

get_user(credentials, user_id) ==
    LET gate == get_current_user(credentials, blacklist, now)
        user == find_one(database_type, db, "users", Query("id", user_id))
        outcome == IF gate.kind # "ok" THEN gate
                   ELSE IF ~user.found THEN HttpError(404, "User not found")
                   ELSE Passed
    IN  /\ last = Idle
        /\ last' = [request |-> GatedRequest("get_user", credentials, gate,
                                    [NoRequest EXCEPT !.user_id = user_id]),
                    response |-> DataResponse(outcome, <<Sanitized(user.doc)>>)]
        /\ UNCHANGED <<direct_vars, settings, database_type, db, blacklist, now, next_id, tokens, logged_out>>

(* ------------------------------ PATCH /users/{id} ---------------------- *)

\* a list of protected fields that leaves password_hash out
protected_fields_without_hash == {"id", "created_at"}

protected_fields == {"id", "password_hash", "created_at"}

\* the body of update_user: [outcome, db]
update_user_body(dbtype, d, user_id, update_data) ==
    LET result == update_one(dbtype, d, "users", Query("id", user_id),
                             Pop(update_data, protected_fields))
    IN  IF ~result.ok
          THEN [outcome |-> HttpError(404, "User not found"), db |-> result.db]
          ELSE [outcome |-> Passed, db |-> result.db]

update_user(credentials, user_id, update_data) ==
    LET gate == require_role({SUPERADMIN, ADMIN}, credentials, blacklist, now)
        body == update_user_body(database_type, db, user_id, update_data)
    IN  /\ last = Idle
        /\ db' = IF gate.kind = "ok" THEN body.db ELSE db
        /\ last' = [request |-> GatedRequest("update_user", credentials, gate,
                                    [NoRequest EXCEPT !.user_id = user_id,
                                                      !.body = update_data]),
                    response |-> Response(IF gate.kind = "ok" THEN body.outcome ELSE gate, {})]
        /\ UNCHANGED <<direct_vars, settings, database_type, blacklist, now, next_id, tokens, logged_out>>

(* ----------------------------- DELETE /users/{id} ---------------------- *)

\* the body of delete_user: [outcome, db]
delete_user_body(dbtype, d, user_id) ==
    LET result == delete_one(dbtype, d, "users", Query("id", user_id))
    IN  IF ~result.ok
          THEN [outcome |-> HttpError(404, "User not found"), db |-> result.db]
          ELSE [outcome |-> Passed, db |-> result.db]

delete_user(credentials, user_id) ==
    LET gate == require_role({SUPERADMIN}, credentials, blacklist, now)
        body == delete_user_body(database_type, db, user_id)
    IN  /\ last = Idle
        /\ db' = IF gate.kind = "ok" THEN body.db ELSE db
        /\ last' = [request |-> GatedRequest("delete_user", credentials, gate,
                                    [NoRequest EXCEPT !.user_id = user_id]),
                    response |-> Response(IF gate.kind = "ok" THEN body.outcome ELSE gate, {})]
        /\ UNCHANGED <<direct_vars, settings, database_type, blacklist, now, next_id, tokens, logged_out>>

(* ------------------- the client takes the response; clock -------------- *)

Deliver ==
    /\ last # Idle
    /\ last' = Idle
    /\ UNCHANGED <<direct_vars, settings, database_type, db, blacklist, now, next_id, tokens, logged_out>>

Tick ==
    /\ last = Idle
    /\ now < MaxTicks * JWT_ACCESS_TOKEN_EXPIRE_MINUTES
    /\ now' = now + JWT_ACCESS_TOKEN_EXPIRE_MINUTES
    /\ UNCHANGED <<direct_vars, settings, database_type, db, blacklist, next_id, tokens, logged_out, last>>

\* TokenBlacklist.add_token called directly: no route calls it
revoke(token) ==
    /\ last = Idle
    /\ Cardinality(blacklist) < MaxRevoked
    /\ token \notin blacklist
    /\ blacklist' = add_token(blacklist, token)
    /\ UNCHANGED <<direct_vars, settings, database_type, db, now, next_id, tokens, logged_out, last>>

(* ------------------- handlers taken one await at a time ---------------- *)
\* An invocation in `calls` is [op, pc, request, seen, status]: pc is the
\* await it stands at ("checked", "inserted") or "done"; `seen` is what its
\* find_one returned; status is the response status once it is done.

Call(op, pc, request, seen, status) ==
    [op |-> op, pc |-> pc, request |-> request, seen |-> seen, status |-> status]

\* register_user up to and including `await db_adapter.find_one(...)`, with
\* the checks on what it returned (validate_password_strength reads no state)
register_find(email, password, role) ==
    LET outcome == register_check(database_type, db, email, password, role)
        request == [NoRequest EXCEPT !.op = "register", !.email = email,
                                     !.password = password, !.role = role]
    IN  /\ Len(calls) < MaxCalls
        /\ calls' = Append(calls,
                        IF outcome.kind = "ok"
                          THEN Call("register", "checked", request, NoBody, 0)
                          ELSE Call("register", "done", request, NoBody, outcome.status))
        /\ UNCHANGED <<settings, database_type, db, blacklist, now, next_id, tokens, logged_out,
                       last, stores, answer>>

\* register_user from hash_password to the return, `await
\* db_adapter.insert_one(...)` included
register_insert(c) ==
    LET request == calls[c].request
        user == UserModel(next_id, request.email, hash_password(request.password),
                          request.role)
    IN  /\ calls[c].op = "register"
        /\ calls[c].pc = "checked"
        /\ db' = insert_one(database_type, db, "users", user)
        /\ next_id' = next_id + 1
        /\ calls' = [calls EXCEPT ![c].pc = "done", ![c].status = 201]
        /\ UNCHANGED <<settings, database_type, blacklist, now, tokens, logged_out, last,
                       stores, answer>>

(* ------------------------ POST /dormitory/allocations ------------------ *)

\* the room POST /dormitory/rooms was called with: one bed of it is free
RoomCapacity == 2
Room == [id |-> 1, capacity |-> RoomCapacity, current_occupancy |-> RoomCapacity - 1]

\* the book POST /library/books was called with: one copy of it
BookCopies == 1
Book == [id |-> 1, available_copies |-> BookCopies]

\* the store once the room and the book have been created; the PostgreSQL
\* adapter has stored neither
StockedDb(dbtype) ==
    [users |-> <<>>, refresh_tokens |-> <<>>,
     dormitory_rooms |-> IF dbtype = "mongodb" THEN <<Room>> ELSE <<>>,
     dormitory_allocations |-> <<>>,
     library_books |-> IF dbtype = "mongodb" THEN <<Book>> ELSE <<>>,
     library_loans |-> <<>>]

\* access tokens of a staff member, a librarian and a student
StaffToken == create_access_token(TokenData(1, "alice@example.com", STAFF), 0)
LibrarianToken == create_access_token(TokenData(1, "alice@example.com", LIBRARIAN), 0)
StudentToken == create_access_token(TokenData(2, "bob@example.com", STUDENT), 0)

InitStocked ==
    /\ settings = DefaultSettings
    /\ database_type \in DatabaseTypes
    /\ db = StockedDb(database_type)
    /\ blacklist = {}
    /\ now = 0
    /\ next_id = 1
    /\ tokens = {StaffToken, LibrarianToken, StudentToken}
    /\ logged_out = {}
    /\ last = Idle
    /\ calls = <<>>
    /\ stores = [dbtype \in DatabaseTypes |-> EmptyDb]
    /\ answer = NoAnswer

\* the checks of allocate_room on what find_one returned
allocate_room_check(room) ==
    IF ~room.found
      THEN HttpError(404, "Room not found")
    ELSE IF room.doc.current_occupancy >= room.doc.capacity
      THEN HttpError(400, "Room is full")
    ELSE [Passed EXCEPT !.status = 201]

\* allocate_room up to and including `await find_one(...)`, with its checks
allocate_room_find(credentials, allocation_data) ==
    LET gate == require_role({ADMIN, STAFF}, credentials, blacklist, now)
        room == find_one(database_type, db, "dormitory_rooms",
                         Query("id", allocation_data.room_id))
        outcome == IF gate.kind # "ok" THEN gate ELSE allocate_room_check(room)
        request == GatedRequest("allocate_room", credentials, gate,
                                [NoRequest EXCEPT !.body = allocation_data])
    IN  /\ Len(calls) < MaxCalls
        /\ calls' = Append(calls,
                        IF outcome.kind = "ok"
                          THEN Call("allocate_room", "checked", request, room.doc, 0)
                          ELSE Call("allocate_room", "done", request, NoBody,
                                    global_exception_handler(outcome).status))
        /\ UNCHANGED <<settings, database_type, db, blacklist, now, next_id, tokens, logged_out,
                       last, stores, answer>>

\* allocate_room: `await insert_one("dormitory_allocations", ...)`
allocate_room_insert(c) ==
    LET allocation_data == [id |-> next_id, room_id |-> calls[c].request.body.room_id,
                            student_id |-> calls[c].request.body.student_id]
    IN  /\ calls[c].op = "allocate_room"
        /\ calls[c].pc = "checked"
        /\ db' = insert_one(database_type, db, "dormitory_allocations", allocation_data)
        /\ next_id' = next_id + 1
        /\ calls' = [calls EXCEPT ![c].pc = "inserted"]
        /\ UNCHANGED <<settings, database_type, blacklist, now, tokens, logged_out, last,
                       stores, answer>>

\* allocate_room: `await update_one("dormitory_rooms", ...)` with the
\* occupancy the call read at its find_one, plus one, and the return
allocate_room_update(c) ==
    /\ calls[c].op = "allocate_room"
    /\ calls[c].pc = "inserted"
    /\ db' = update_one(database_type, db, "dormitory_rooms",
                        Query("id", calls[c].request.body.room_id),
                        [current_occupancy |-> calls[c].seen.current_occupancy + 1]).db
    /\ calls' = [calls EXCEPT ![c].pc = "done", ![c].status = 201]
    /\ UNCHANGED <<settings, database_type, blacklist, now, next_id, tokens, logged_out, last,
                   stores, answer>>

(* ---------------------------- POST /library/loans ---------------------- *)

\* the checks of borrow_book on what find_one returned
borrow_book_check(book) ==
    IF ~book.found
      THEN HttpError(404, "Book not found")
    ELSE IF book.doc.available_copies <= 0
      THEN HttpError(400, "Book not available")
    ELSE [Passed EXCEPT !.status = 201]

\* borrow_book up to and including `await find_one(...)`, with its checks
borrow_book_find(credentials, loan_data) ==
    LET gate == require_role({LIBRARIAN}, credentials, blacklist, now)
        book == find_one(database_type, db, "library_books", Query("id", loan_data.book_id))
        outcome == IF gate.kind # "ok" THEN gate ELSE borrow_book_check(book)
        request == GatedRequest("borrow_book", credentials, gate,
                                [NoRequest EXCEPT !.body = loan_data])
    IN  /\ Len(calls) < MaxCalls
        /\ calls' = Append(calls,
                        IF outcome.kind = "ok"
                          THEN Call("borrow_book", "checked", request, book.doc, 0)
                          ELSE Call("borrow_book", "done", request, NoBody,
                                    global_exception_handler(outcome).status))
        /\ UNCHANGED <<settings, database_type, db, blacklist, now, next_id, tokens, logged_out,
                       last, stores, answer>>

\* borrow_book: `await insert_one("library_loans", ...)`
borrow_book_insert(c) ==
    LET loan_data == [id |-> next_id, book_id |-> calls[c].request.body.book_id,
                      student_id |-> calls[c].request.body.student_id,
                      issued_by |-> calls[c].request.credentials.user_id,
                      loan_date |-> now, due_date |-> now + 14 * 24 * 60]
    IN  /\ calls[c].op = "borrow_book"
        /\ calls[c].pc = "checked"
        /\ db' = insert_one(database_type, db, "library_loans", loan_data)
        /\ next_id' = next_id + 1
        /\ calls' = [calls EXCEPT ![c].pc = "inserted"]
        /\ UNCHANGED <<settings, database_type, blacklist, now, tokens, logged_out, last,
                       stores, answer>>

\* an update that decrements the stored count instead of writing the count
\* the call read
borrow_book_update_stored(c) ==
    LET book == find_one(database_type, db, "library_books",
                         Query("id", calls[c].request.body.book_id))
    IN  /\ calls[c].op = "borrow_book"
        /\ calls[c].pc = "inserted"
        /\ db' = update_one(database_type, db, "library_books",
                            Query("id", calls[c].request.body.book_id),
                            [available_copies |-> book.doc.available_copies - 1]).db
        /\ calls' = [calls EXCEPT ![c].pc = "done", ![c].status = 201]
        /\ UNCHANGED <<settings, database_type, blacklist, now, next_id, tokens, logged_out, last,
                       stores, answer>>

\* borrow_book: `await update_one("library_books", ...)` with the count the
\* call read at its find_one, minus one, and the return
borrow_book_update(c) ==
    /\ calls[c].op = "borrow_book"
    /\ calls[c].pc = "inserted"
    /\ db' = update_one(database_type, db, "library_books",
                        Query("id", calls[c].request.body.book_id),
                        [available_copies |-> calls[c].seen.available_copies - 1]).db
    /\ calls' = [calls EXCEPT ![c].pc = "done", ![c].status = 201]
    /\ UNCHANGED <<settings, database_type, blacklist, now, next_id, tokens, logged_out, last,
                   stores, answer>>

(* ------------- /library/loans, one request after the other ------------ *)

\* borrow_book run from its first line to its return
borrow_book(credentials, loan_data) ==
    LET gate == require_role({LIBRARIAN}, credentials, blacklist, now)
        book == find_one(database_type, db, "library_books", Query("id", loan_data.book_id))
        outcome == IF gate.kind # "ok" THEN gate ELSE borrow_book_check(book)
        loan == [id |-> next_id, book_id |-> loan_data.book_id,
                 student_id |-> loan_data.student_id,
                 issued_by |-> credentials.user_id,
                 loan_date |-> now, due_date |-> now + 14 * 24 * 60]
    IN  /\ last = Idle
        /\ outcome.kind = "ok" => Len(db.library_loans) < MaxDocs
        /\ IF outcome.kind = "ok"
             THEN /\ db' = update_one(database_type,
                                      insert_one(database_type, db, "library_loans", loan),
                                      "library_books", Query("id", loan_data.book_id),
                                      [available_copies |->
                                          book.doc.available_copies - 1]).db
                  /\ next_id' = next_id + 1
             ELSE UNCHANGED <<db, next_id>>
        /\ last' = [request |-> GatedRequest("borrow_book", credentials, gate,
                                    [NoRequest EXCEPT !.body = loan_data]),
                    response |-> DataResponse(outcome, <<loan>>)]
        /\ UNCHANGED <<direct_vars, settings, database_type, blacklist, now, tokens, logged_out>>

\* the body of return_book: [outcome, db].  The loan is marked returned
\* whatever its status was, then the book's count is read and written back
\* plus one; a loan whose book is gone ends in TypeError after the loan
\* was updated.
return_book_body(dbtype, d, loan_id, t) ==
    LET loan == find_one(dbtype, d, "library_loans", Query("id", loan_id))
        returned == update_one(dbtype, d, "library_loans", Query("id", loan_id),
                               [return_date |-> t, status |-> "returned"]).db
        book == find_one(dbtype, returned, "library_books", Query("id", loan.doc.book_id))
    IN  IF ~loan.found
          THEN [outcome |-> HttpError(404, "Loan not found"), db |-> d]
        ELSE IF ~book.found
          THEN [outcome |-> [kind |-> "error", status |-> 500, detail |-> "TypeError"],
                db |-> returned]
        ELSE [outcome |-> Passed,
              db |-> update_one(dbtype, returned, "library_books",
                                Query("id", loan.doc.book_id),
                                [available_copies |-> book.doc.available_copies + 1]).db]

return_book(credentials, loan_id) ==
    LET gate == require_role({LIBRARIAN}, credentials, blacklist, now)
        body == return_book_body(database_type, db, loan_id, now)
    IN  /\ last = Idle
        /\ \A i \in 1..Len(db.library_books) :
              db.library_books[i].available_copies < BookCopies + MaxDocs
        /\ db' = IF gate.kind = "ok" THEN body.db ELSE db
        /\ last' = [request |-> GatedRequest("return_book", credentials, gate,
                                    [NoRequest EXCEPT !.user_id = loan_id]),
                    response |-> Response(IF gate.kind = "ok" THEN body.outcome ELSE gate, {})]
        /\ UNCHANGED <<direct_vars, settings, database_type, blacklist, now, next_id,
                       tokens, logged_out>>

(* ------------------------------ POST /classes/ ------------------------- *)

\* the access token login gives the user registered with this role
RoleToken(role) == create_access_token(TokenData(1, "alice@example.com", role), 0)

\* the body POST /classes/ is called with
ClassData == [name |-> "7A"]

\* one user stored, no class yet, and a token of every role handed out
InitRoles ==
    /\ settings = DefaultSettings
    /\ database_type \in DatabaseTypes
    /\ db = [users |-> IF database_type = "mongodb"
                         THEN <<UserModel(2, "bob@example.com", hash_password(Passw0rd),
                                          STUDENT)>>
                         ELSE <<>>,
             refresh_tokens |-> <<>>, classes |-> <<>>]
    /\ blacklist = {}
    /\ now = 0
    /\ next_id = 3
    /\ tokens = {RoleToken(role) : role \in valid_roles}
    /\ logged_out = {}
    /\ last = Idle
    /\ calls = <<>>
    /\ stores = [dbtype \in DatabaseTypes |-> EmptyDb]
    /\ answer = NoAnswer

\* create_class: the gate, then the stamped body is inserted and returned;
\* the uuid4 id is a fresh one
create_class(credentials, class_data) ==
    LET gate == require_role({ADMIN, HEADMASTER}, credentials, blacklist, now)
        class == [id |-> Len(db.classes) + 1, name |-> class_data.name]
    IN  /\ last = Idle
        /\ gate.kind = "ok" => Len(db.classes) < MaxDocs
        /\ db' = IF gate.kind = "ok" THEN insert_one(database_type, db, "classes", class)
                                      ELSE db
        /\ last' = [request |-> GatedRequest("create_class", credentials, gate,
                                    [NoRequest EXCEPT !.body = class_data]),
                    response |-> IF gate.kind = "ok"
                                   THEN DataResponse([Passed EXCEPT !.status = 201], <<class>>)
                                   ELSE Response(gate, {})]
        /\ UNCHANGED <<direct_vars, settings, database_type, blacklist, now, next_id, tokens, logged_out>>

(* ------------------------------- /finance ------------------------------ *)

\* the invoice POST /finance/invoices stored
Invoice == [id |-> 1, invoice_number |-> "INV-1", total_amount |-> 100]

\* settings.MIDTRANS_SERVER_KEY
MIDTRANS_SERVER_KEY == "server-key"

\* an HTTPException(500) a route raises in its `except Exception as e`
\* clause: the detail is the route's prefix followed by str(e)
Raised(prefix, text) ==
    [kind |-> "http", status |-> 500, detail |-> prefix, exception |-> text]

\* the exception text the response body carries: str(exc) from the global
\* handler when DEBUG is on, str(e) from a route's own 500 always
exception_text(outcome, debug) ==
    IF outcome.kind = "error"
      THEN IF debug THEN outcome.detail ELSE ""
    ELSE IF "exception" \in DOMAIN outcome
      THEN outcome.exception
    ELSE ""

\* the response of a finance route
FinanceResponse(outcome, data, s) ==
    [status |-> global_exception_handler(outcome).status,
     detail |-> global_exception_handler(outcome).detail,
     exception |-> exception_text(outcome, s.DEBUG),
     data |-> IF outcome.kind = "ok" THEN data ELSE <<>>]

\* get_payment_gateway: the gateway class, or ValueError
get_payment_gateway(s) ==
    IF s.PAYMENT_GATEWAY \in {"midtrans", "xendit", "stripe", "bayarind"}
      THEN [kind |-> "ok", gateway |-> s.PAYMENT_GATEWAY, text |-> ""]
      ELSE [kind |-> "error", gateway |-> "", text |-> "Unsupported payment gateway"]

\* gateway.create_payment(invoice): the dict it returns.  `network` is what
\* requests.post does: "charged" (the gateway's JSON answer) or "down" (it
\* raises).  MidtransGateway and XenditGateway catch every exception and
\* return {"error": str(e)}; only Midtrans's answer has a transaction_id;
\* the Stripe and Bayarind placeholders return a message.
gateway_create_payment(gateway, invoice, network) ==
    IF gateway \in {"midtrans", "xendit"} /\ network = "down"
      THEN [transaction_id |-> None, error |-> "ConnectionError"]
    ELSE IF gateway = "midtrans"
      THEN [transaction_id |-> invoice.id, error |-> ""]
    ELSE [transaction_id |-> None, error |-> ""]

\* the body of create_payment: [outcome, db, data]
create_payment_body(s, dbtype, d, payment_data, network) ==
    LET invoice == find_one(dbtype, d, "invoices", Query("id", payment_data.invoice_id))
        gateway == get_payment_gateway(s)
        gateway_response == gateway_create_payment(gateway.gateway, invoice.doc, network)
        payment == [id |-> Len(d.payments) + 1, invoice_id |-> payment_data.invoice_id,
                    gateway_transaction_id |-> gateway_response.transaction_id,
                    status |-> "pending"]
    IN  IF ~invoice.found
          THEN [outcome |-> HttpError(404, "Invoice not found"), db |-> d, data |-> <<>>]
        ELSE IF gateway.kind = "error"
          THEN [outcome |-> Raised("Payment creation failed", gateway.text),
                db |-> d, data |-> <<>>]
        ELSE [outcome |-> [Passed EXCEPT !.status = 201],
              db |-> insert_one(dbtype, d, "payments", payment),
              data |-> <<payment>>]

\* a request to a finance route
NoFinanceRequest ==
    [op |-> "", credentials |-> Missing, invoice_id |-> 0, network |-> "",
     payload |-> <<>>, signature |-> <<>>]

create_payment(credentials, payment_data, network) ==
    LET gate == get_current_user(credentials, blacklist, now)
        body == create_payment_body(settings, database_type, db, payment_data, network)
    IN  /\ last = Idle
        /\ gate.kind = "ok" => Len(body.db.payments) <= MaxDocs
        /\ db' = IF gate.kind = "ok" THEN body.db ELSE db
        /\ last' = [request |-> GatedRequest("create_payment", credentials, gate,
                                    [NoFinanceRequest EXCEPT
                                        !.invoice_id = payment_data.invoice_id,
                                        !.network = network]),
                    response |-> IF gate.kind = "ok"
                                   THEN FinanceResponse(body.outcome, body.data, settings)
                                   ELSE FinanceResponse(gate, <<>>, settings)]
        /\ UNCHANGED <<direct_vars, settings, database_type, blacklist, now, next_id,
                       tokens, logged_out>>

\* hashlib.sha512 of the concatenated fields
Sha512(fields) == <<"sha512", fields>>

\* gateway.verify_webhook(payload, signature): Midtrans compares the digest;
\* Xendit reads settings.XENDIT_WEBHOOK_TOKEN, which config.py does not
\* define (AttributeError); the placeholders return True
verify_webhook(gateway, payload, signature) ==
    IF gateway = "midtrans"
      THEN [kind |-> "ok", text |-> "",
            valid |-> signature = Sha512(<<payload.order_id, payload.status_code,
                                           payload.gross_amount, MIDTRANS_SERVER_KEY>>)]
    ELSE IF gateway = "xendit"
      THEN [kind |-> "error", text |-> "AttributeError", valid |-> FALSE]
    ELSE [kind |-> "ok", text |-> "", valid |-> TRUE]

\* the body of payment_webhook.  The HTTPException(401) is raised inside the
\* try block, and `except Exception` catches it with every other exception.
payment_webhook_body(s, payload, signature) ==
    LET gateway == get_payment_gateway(s)
        is_valid == verify_webhook(gateway.gateway, payload, signature)
    IN  IF gateway.kind = "error"
          THEN Raised("Webhook processing failed", gateway.text)
        ELSE IF is_valid.kind = "error"
          THEN Raised("Webhook processing failed", is_valid.text)
        ELSE IF ~is_valid.valid
          THEN Raised("Webhook processing failed", "401: Invalid webhook signature")
        ELSE Passed

payment_webhook(payload, signature) ==
    /\ last = Idle
    /\ last' = [request |-> [NoFinanceRequest EXCEPT !.op = "payment_webhook",
                                 !.payload = <<payload>>, !.signature = signature],
                response |-> FinanceResponse(
                                payment_webhook_body(settings, payload, signature),
                                <<>>, settings)]
    /\ UNCHANGED <<direct_vars, settings, database_type, db, blacklist, now, next_id,
                   tokens, logged_out>>

\* the webhook body and the X-Signature headers it is sent with: the
\* gateway's, one made with another key, and none
WebhookPayload == [order_id |-> "INV-1", status_code |-> "200", gross_amount |-> "100"]
WebhookSignatures ==
    { Sha512(<<"INV-1", "200", "100", MIDTRANS_SERVER_KEY>>),
      Sha512(<<"INV-1", "200", "100", "another-key">>),
      <<>> }

\* the deployments: debug on or off, every gateway of gateway_map that is
\* implemented and a name outside it; one invoice stored, one user logged in
InitFinance ==
    /\ settings \in {Settings(debug, payment_gateway) :
                        debug \in BOOLEAN,
                        payment_gateway \in {"midtrans", "xendit", "stripe", "paypal"}}
    /\ database_type \in DatabaseTypes
    /\ db = [users |-> <<>>, refresh_tokens |-> <<>>,
             invoices |-> IF database_type = "mongodb" THEN <<Invoice>> ELSE <<>>,
             payments |-> <<>>]
    /\ blacklist = {}
    /\ now = 0
    /\ next_id = 1
    /\ tokens = {StudentToken}
    /\ logged_out = {}
    /\ last = Idle
    /\ calls = <<>>
    /\ stores = [dbtype \in DatabaseTypes |-> EmptyDb]
    /\ answer = NoAnswer

(* ------------------- PATCH /users/{id} on stored users ----------------- *)

\* a stored user: UserModel with the created_at stamp of its registration
StoredUser(id, email, role, created_at) ==
    [created_at |-> created_at] @@ UserModel(id, email, hash_password(Passw0rd), role)

\* two users registered, an admin and a student logged in
InitPatch ==
    /\ settings = DefaultSettings
    /\ database_type \in DatabaseTypes
    /\ db = [users |-> IF database_type = "mongodb"
                         THEN <<StoredUser(1, "alice@example.com", ADMIN, 0),
                                StoredUser(2, "bob@example.com", STUDENT, 0)>>
                         ELSE <<>>,
             refresh_tokens |-> <<>>]
    /\ blacklist = {}
    /\ now = 0
    /\ next_id = 3
    /\ tokens = {RoleToken(ADMIN), StudentToken}
    /\ logged_out = {}
    /\ last = Idle
    /\ calls = <<>>
    /\ stores = [dbtype \in DatabaseTypes |-> EmptyDb]
    /\ answer = NoAnswer

\* the JSON bodies PATCH is called with: protected keys alone, protected
\* keys next to others, values a stored record already has, and no key
PatchInputs ==
    { [id |-> 9, password_hash |-> hash_password(OtherPassword), created_at |-> 99],
      [id |-> 9, role |-> STUDENT, email |-> "bob@example.com"],
      [password_hash |-> hash_password(OtherPassword), is_active |-> FALSE,
       two_factor_enabled |-> TRUE, two_factor_secret |-> 2],
      [created_at |-> 99, role |-> ADMIN],
      NoBody }

(* ------------------- both adapters driven by the same calls ------------ *)
\* Each action makes one call of the DatabaseAdapter interface on both
\* adapters, each on its own store; `answer` keeps what each returned.

\* the default of find_many's limit parameter
FIND_MANY_LIMIT_DEFAULT == 100

\* the documents, queries and updates the adapters are called with
Docs == {[id |-> i, tag |-> g] : i \in 1..2, g \in {"a", "b"}}
Queries == {Query("id", i) : i \in 1..2} \cup {Query("tag", g) : g \in {"a", "b"}}
Updates == {[tag |-> g] : g \in {"a", "b"}}

Answer(op, args, value) == [op |-> op, args |-> args, value |-> value]

adapter_insert_one(collection, document) ==
    /\ \A dbtype \in DatabaseTypes : Len(stores[dbtype][collection]) < MaxDocs
    /\ stores' = [dbtype \in DatabaseTypes |->
                    insert_one(dbtype, stores[dbtype], collection, document)]
    /\ answer' = Answer("insert_one", [collection |-> collection, document |-> document],
                        [dbtype \in DatabaseTypes |-> [id |-> inserted_id(dbtype)]])
    /\ UNCHANGED <<settings, database_type, db, blacklist, now, next_id, tokens, logged_out,
                   last, calls>>

adapter_find_one(collection, query) ==
    /\ answer' = Answer("find_one", [collection |-> collection, query |-> query],
                        [dbtype \in DatabaseTypes |->
                            find_one(dbtype, stores[dbtype], collection, query)])
    /\ UNCHANGED <<settings, database_type, db, blacklist, now, next_id, tokens, logged_out,
                   last, calls, stores>>

adapter_find_many(collection, queries, limit) ==
    /\ answer' = Answer("find_many",
                        [collection |-> collection, queries |-> queries, limit |-> limit],
                        [dbtype \in DatabaseTypes |->
                            [docs |-> find_many(dbtype, stores[dbtype], collection,
                                                queries, limit)]])
    /\ UNCHANGED <<settings, database_type, db, blacklist, now, next_id, tokens, logged_out,
                   last, calls, stores>>

adapter_update_one(collection, query, update) ==
    /\ stores' = [dbtype \in DatabaseTypes |->
                    update_one(dbtype, stores[dbtype], collection, query, update).db]
    /\ answer' = Answer("update_one",
                        [collection |-> collection, query |-> query, update |-> update],
                        [dbtype \in DatabaseTypes |->
                            [ok |-> update_one(dbtype, stores[dbtype], collection,
                                               query, update).ok]])
    /\ UNCHANGED <<settings, database_type, db, blacklist, now, next_id, tokens, logged_out,
                   last, calls>>

adapter_delete_one(collection, query) ==
    /\ stores' = [dbtype \in DatabaseTypes |->
                    delete_one(dbtype, stores[dbtype], collection, query).db]
    /\ answer' = Answer("delete_one", [collection |-> collection, query |-> query],
                        [dbtype \in DatabaseTypes |->
                            [ok |-> delete_one(dbtype, stores[dbtype], collection, query).ok]])
    /\ UNCHANGED <<settings, database_type, db, blacklist, now, next_id, tokens, logged_out,
                   last, calls>>

(* --------------------- PasswordHandler called directly ----------------- *)

\* an uppercase letter, a digit, a symbol of the punctuation set and a
\* symbol outside it
Ingredients == <<"A", "1", "!", "~">>

\* the password of length n that starts with the chosen ingredients and
\* goes on with lowercase letters
Candidate(n, chosen) ==
    LET picked == SelectSeq(Ingredients, LAMBDA c : c \in chosen)
    IN  [i \in 1..n |-> IF i <= Len(picked) THEN picked[i] ELSE "a"]

\* the passwords validate_password_strength is applied to
Candidates ==
    {Candidate(n, chosen) : n \in 0..MaxLen, chosen \in SUBSET {"A", "1", "!", "~"}}

password_validate(password) ==
    /\ answer' = Answer("validate_password_strength", [password |-> password],
                        validate_password_strength(password))
    /\ UNCHANGED <<settings, database_type, db, blacklist, now, next_id, tokens, logged_out,
                   last, calls, stores>>

(* ----------------------- JWTHandler called directly -------------------- *)

\* the claim sets create_access_token is called with
ClaimSets ==
    {TokenData(i, e, r) :
        i \in 1..2, e \in Emails, r \in {SUPERADMIN, STUDENT}}

\* what decode_token can be handed once `issued` have been created: the
\* tokens themselves, the same claims signed with another key or with
\* another algorithm, and a string that is no JWT
Presented(issued) ==
    issued \cup {[token EXCEPT !.form = form] :
                    token \in issued, form \in {"forged", "wrong_algorithm"}}
           \cup {Malformed}

jwt_create_access_token(data) ==
    /\ Cardinality(tokens) < MaxIssues
    /\ tokens' = tokens \cup {create_access_token(data, now)}
    /\ answer' = Answer("create_access_token", [data |-> data, now |-> now],
                        create_access_token(data, now))
    /\ UNCHANGED <<settings, database_type, db, blacklist, now, next_id, logged_out,
                   last, calls, stores>>

jwt_decode_token(token) ==
    /\ answer' = Answer("decode_token", [token |-> token, now |-> now],
                        decode_token(token, now))
    /\ UNCHANGED <<settings, database_type, db, blacklist, now, next_id, tokens, logged_out,
                   last, calls, stores>>

(* --------------------------- specifications --------------------------- *)

Register == \E r \in RegisterInputs : register_user(r.email, r.password, r.role)

Login ==
    \E email \in Emails, password \in LoginPasswords, totp_token \in TotpInputs(now) :
        login(email, password, totp_token)

Refresh == \E refresh_token \in Credentials \ {Missing} : refresh_access_token(refresh_token)

Logout == \E credentials \in Credentials : logout(credentials)

LogoutRecorded == \E credentials \in Credentials : logout_recorded(credentials)

Me == \E credentials \in Credentials : get_current_user_info(credentials)

Enable2FA == \E credentials \in Credentials, secret \in Secrets : enable_2fa(credentials, secret)

Verify2FA ==
    \E credentials \in Credentials, token \in TotpInputs(now) \ {NoCode} :
        verify_2fa(credentials, token)

UpdateUser ==
    \E credentials \in Credentials, user_id \in 1..MaxUsers, update_data \in PatchBodies :
        update_user(credentials, user_id, update_data)

DeleteUser ==
    \E credentials \in Credentials, user_id \in 1..MaxUsers : delete_user(credentials, user_id)

Revoke == \E token \in Credentials \ {Missing} : revoke(token)

\* the server: every route of the model
Next ==
    \/ Register
    \/ Login
    \/ Refresh
    \/ Logout
    \/ Me
    \/ Enable2FA
    \/ Verify2FA
    \/ UpdateUser
    \/ DeleteUser
    \/ Deliver
    \/ Tick

Spec == Init /\ [][Next]_vars

\* the server, with the history of successful logouts kept
NextHistory ==
    \/ Register
    \/ Login
    \/ Refresh
    \/ LogoutRecorded
    \/ Me
    \/ Enable2FA
    \/ Verify2FA
    \/ UpdateUser
    \/ DeleteUser
    \/ Deliver
    \/ Tick

SpecHistory == Init /\ [][NextHistory]_vars

\* the revocation registry exercised directly, with the login routes and
\* three protected routes (two behind get_current_user, one role-gated)
NextRegistry ==
    \/ Register
    \/ Login
    \/ Revoke
    \/ Logout
    \/ Me
    \/ DeleteUser
    \/ Deliver
    \/ Tick

SpecRegistry == Init /\ [][NextRegistry]_vars

RegisterFind == \E r \in RegisterInputs : register_find(r.email, r.password, r.role)

RegisterInsert == \E c \in 1..Len(calls) : register_insert(c)

ListUsers ==
    \E credentials \in Credentials, role \in {"", SUPERADMIN, STUDENT},
       is_active \in {{}, {TRUE}, {FALSE}} :
        list_users(credentials, role, is_active, LIST_LIMIT_DEFAULT)

GetUser ==
    \E credentials \in Credentials, user_id \in 1..MaxUsers : get_user(credentials, user_id)

\* the routes that return user documents, with the routes that create a user,
\* issue its token and store its 2FA secret
NextUserData ==
    \/ Register
    \/ Login
    \/ Enable2FA
    \/ Me
    \/ ListUsers
    \/ GetUser
    \/ Deliver

SpecUserData == Init /\ [][NextUserData]_vars

\* concurrent POST /auth/register requests, interleaved at their awaits
NextRegisterRace ==
    \/ RegisterFind
    \/ RegisterInsert

SpecRegisterRace == Init /\ [][NextRegisterRace]_vars

AllocateRoomFind ==
    \E credentials \in {Missing, StaffToken, StudentToken}, room_id \in 1..2,
       student_id \in 1..MaxCalls :
        allocate_room_find(credentials, [room_id |-> room_id, student_id |-> student_id])

AllocateRoomInsert == \E c \in 1..Len(calls) : allocate_room_insert(c)

AllocateRoomUpdate == \E c \in 1..Len(calls) : allocate_room_update(c)

\* concurrent POST /dormitory/allocations requests, interleaved at their awaits
NextDormitory ==
    \/ AllocateRoomFind
    \/ AllocateRoomInsert
    \/ AllocateRoomUpdate

SpecDormitory == InitStocked /\ [][NextDormitory]_vars

BorrowBookFind ==
    \E credentials \in {Missing, LibrarianToken, StudentToken}, book_id \in 1..2,
       student_id \in 1..MaxCalls :
        borrow_book_find(credentials, [book_id |-> book_id, student_id |-> student_id])

BorrowBookInsert == \E c \in 1..Len(calls) : borrow_book_insert(c)

BorrowBookUpdate == \E c \in 1..Len(calls) : borrow_book_update(c)

\* concurrent POST /library/loans requests, interleaved at their awaits
NextLibrary ==
    \/ BorrowBookFind
    \/ BorrowBookInsert
    \/ BorrowBookUpdate

SpecLibrary == InitStocked /\ [][NextLibrary]_vars

AdapterInsertOne == \E document \in Docs : adapter_insert_one("users", document)

AdapterFindOne == \E query \in Queries : adapter_find_one("users", query)

AdapterFindMany ==
    \E queries \in {{}} \cup {{query} : query \in Queries},
       limit \in {1, FIND_MANY_LIMIT_DEFAULT} :
        adapter_find_many("users", queries, limit)

AdapterUpdateOne ==
    \E query \in Queries, update \in Updates : adapter_update_one("users", query, update)

AdapterDeleteOne == \E query \in Queries : adapter_delete_one("users", query)

\* the DatabaseAdapter interface called directly, on both adapters at once
NextAdapters ==
    \/ AdapterInsertOne
    \/ AdapterFindOne
    \/ AdapterFindMany
    \/ AdapterUpdateOne
    \/ AdapterDeleteOne

SpecAdapters == Init /\ [][NextAdapters]_vars

CreateClass == \E credentials \in Credentials : create_class(credentials, ClassData)

DeleteUserById ==
    \E credentials \in Credentials, user_id \in 1..2 : delete_user(credentials, user_id)

\* the two role-gated routes called with the token of every role
NextRoles ==
    \/ CreateClass
    \/ DeleteUserById
    \/ Deliver
    \/ Tick

SpecRoles == InitRoles /\ [][NextRoles]_vars

CreatePayment ==
    \E credentials \in Credentials, invoice_id \in 1..2, network \in {"charged", "down"} :
        create_payment(credentials, [invoice_id |-> invoice_id], network)

PaymentWebhook ==
    \E signature \in WebhookSignatures : payment_webhook(WebhookPayload, signature)

\* the payment routes under every deployment
NextFinance ==
    \/ CreatePayment
    \/ PaymentWebhook
    \/ Deliver
    \/ Tick

SpecFinance == InitFinance /\ [][NextFinance]_vars

\* the 2FA routes next to registration and login, without PATCH
NextTwoFactor ==
    \/ Register
    \/ Login
    \/ Enable2FA
    \/ Verify2FA
    \/ Deliver
    \/ Tick

SpecTwoFactor == Init /\ [][NextTwoFactor]_vars

\* what a caller without any account can do on its own
NextSelfService ==
    \/ Register
    \/ Login
    \/ DeleteUser
    \/ Deliver

SpecSelfService == Init /\ [][NextSelfService]_vars

RefreshAgain ==
    \E refresh_token \in Credentials \ {Missing} : refresh_access_token_again(refresh_token)

\* a session from registration to logout and after, with refreshes
NextSession ==
    \/ Register
    \/ Login
    \/ RefreshAgain
    \/ LogoutRecorded
    \/ Deliver
    \/ Tick

SpecSession == Init /\ [][NextSession]_vars

\* PATCH /users/{id} with a body that deactivates the user and changes the role
Demote ==
    \E credentials \in Credentials, user_id \in 1..MaxUsers :
        update_user(credentials, user_id, [is_active |-> FALSE, role |-> STUDENT])

\* tokens used after their user was changed or deleted
NextStale ==
    \/ Register
    \/ Login
    \/ RefreshAgain
    \/ Logout
    \/ Demote
    \/ DeleteUser
    \/ Deliver
    \/ Tick

SpecStale == Init /\ [][NextStale]_vars

Patch ==
    \E credentials \in Credentials, user_id \in 1..3, update_data \in PatchInputs :
        update_user(credentials, user_id, update_data)

\* PATCH /users/{id} called on two stored users
NextPatch ==
    \/ Patch
    \/ Deliver

SpecPatch == InitPatch /\ [][NextPatch]_vars

BorrowBook ==
    \E credentials \in {Missing, LibrarianToken, StudentToken}, book_id \in 1..2 :
        borrow_book(credentials, [book_id |-> book_id, student_id |-> 2])

ReturnBook ==
    \E credentials \in {Missing, LibrarianToken, StudentToken}, loan_id \in 1..MaxDocs :
        return_book(credentials, loan_id)

\* loans and returns, one request after the other
NextLending ==
    \/ BorrowBook
    \/ ReturnBook
    \/ Deliver
    \/ Tick

SpecLending == InitStocked /\ [][NextLending]_vars

ValidatePasswordStrength == \E password \in Candidates : password_validate(password)

\* validate_password_strength called directly
NextPassword == ValidatePasswordStrength

SpecPassword == Init /\ [][NextPassword]_vars

JwtCreateAccessToken == \E data \in ClaimSets : jwt_create_access_token(data)

JwtDecodeToken == \E token \in Presented(tokens) : jwt_decode_token(token)

\* create_access_token and decode_token called directly, as time passes
NextTokens ==
    \/ JwtCreateAccessToken
    \/ JwtDecodeToken
    \/ Tick

SpecTokens == Init /\ [][NextTokens]_vars

(* ------------------------------ properties ---------------------------- *)

\* the routes behind get_current_user, and those behind require_role
ProtectedOps == {"logout", "me", "enable_2fa", "verify_2fa", "update_user", "delete_user"}

AllowedRoles(op) ==
    IF op = "update_user" THEN {SUPERADMIN, ADMIN}
    ELSE IF op = "delete_user" THEN {SUPERADMIN}
    ELSE {}

RoleGatedOps == {"update_user", "delete_user"}

\* the token is correctly signed and has not expired at time t
Unexpired(token, t) == token.form = "signed" /\ t < token.exp

\* the step answers a request: last' is its request and response
Answers(op) == last = Idle /\ last' # Idle /\ last'.request.op = op

\* C1: after a successful logout with token T, every later request that
\* presents T to a protected route is answered 401.
C1_LogoutRevokes ==
    [][ (/\ last = Idle /\ last' # Idle
         /\ last'.request.op \in ProtectedOps
         /\ last'.request.credentials \in logged_out)
        => last'.response.status = 401 ]_vars

\* C2: a token given to add_token is answered 401 by every protected route,
\* whatever its signature and remaining lifetime, while decode_token alone
\* still accepts it as long as it is correctly signed and unexpired.
C2_RevokedNeverPasses ==
    /\ (last.request.op \in ProtectedOps /\ last.request.credentials \in blacklist)
          => last.response.status = 401
    /\ \A token \in blacklist :
          Unexpired(token, now) => decode_token(token, now).kind = "ok"

C2_Witness ==
    /\ last.request.op \in ProtectedOps
    /\ last.request.credentials \in blacklist
    /\ Unexpired(last.request.credentials, now)
    /\ last.request.credentials.type = "access"
    /\ last.response.status = 401

\* the credentials resolve to an identity: a correctly signed, unexpired,
\* access-typed token that is not revoked
Resolves(credentials, bl, t) ==
    /\ Unexpired(credentials, t)
    /\ credentials.type = "access"
    /\ credentials \notin bl

\* C3: a role-gated route answers 401 whenever the token does not resolve to
\* an identity (missing, malformed, revoked, expired, badly signed, not
\* access-typed), 403 exactly when it resolves and its role is not allowed,
\* and runs its handler only for a resolving token with an allowed role.
C3_RoleGate ==
    last.request.op \in RoleGatedOps =>
        LET credentials == last.request.credentials
            resolves == Resolves(credentials, blacklist, now)
            allowed == credentials.role \in AllowedRoles(last.request.op)
        IN  /\ ~resolves => last.response.status = 401
            /\ (resolves /\ ~allowed) <=> last.response.status = 403
            /\ last.response.status \in {200, 404} => (resolves /\ allowed)

\* C4: a correctly signed, unexpired token that is not access-typed is
\* answered 401 by every protected route, and refresh answers 401 and issues
\* nothing for every token that is not refresh-typed.
C4_TokenTypes ==
    /\ (/\ last.request.op \in ProtectedOps
        /\ Unexpired(last.request.credentials, now)
        /\ last.request.credentials.type # "access")
          => last.response.status = 401
    /\ (last.request.op = "refresh" /\ last.request.credentials.type # "refresh")
          => (last.response.status = 401 /\ last.response.tokens = {})

C4_Witness ==
    /\ last.request.op = "refresh"
    /\ Unexpired(last.request.credentials, now)
    /\ last.request.credentials.type = "access"
    /\ last.response.status = 401
    /\ \E token \in tokens : token.type = "refresh" /\ Unexpired(token, now)

\* the user record with this email / this id in database d, and whether the
\* store holds one
Account(d, email) == find_one(database_type, d, "users", Query("email", email))

Caller(d, credentials) ==
    find_one(database_type, d, "users", Query("id", credentials.user_id))

\* the password is the one of the account
CorrectPassword(account, password) ==
    account.found /\ verify_password(password, account.doc.password_hash)

\* the code is the one an authenticator holding the stored secret shows now
\* (one time step of drift allowed)
CodeVerifies(user, token, t) ==
    /\ user.found
    /\ user.doc.two_factor_secret # None
    /\ token # NoCode
    /\ token.secret = user.doc.two_factor_secret
    /\ token.step \in (TimeStep(t) - 1)..(TimeStep(t) + 1)

\* the step refuses the login: no token is issued and nothing is stored
Refused(status, detail) ==
    /\ last'.response =
          [status |-> status, detail |-> detail, tokens |-> {}, data |-> <<>>]
    /\ tokens' = tokens
    /\ db' = db

\* C5: a login with an email that matches no user and a login of an existing
\* user with a wrong password get the same response, 401 "Invalid
\* credentials" with no tokens, and leave the user store unchanged, whatever
\* the account's active flag and 2FA state.
C5_LoginFailuresAlike ==
    [][ (/\ Answers("login")
         /\ ~CorrectPassword(Account(db, last'.request.email), last'.request.password))
        => Refused(401, "Invalid credentials") ]_vars

C5_Witness ==
    /\ last.request.op = "login"
    /\ Account(db, last.request.email).found
    /\ ~CorrectPassword(Account(db, last.request.email), last.request.password)
    /\ ~Account(db, last.request.email).doc.is_active
    /\ last.response.status = 401

\* C6: a login with the correct password of a user whose is_active is false
\* is answered 403, issues no token and leaves the user record unchanged;
\* 403 is answered only after the lookup and the password check succeeded.
C6_InactiveLogin ==
    [][ Answers("login") =>
          LET account == Account(db, last'.request.email)
              correct == CorrectPassword(account, last'.request.password)
          IN  /\ (correct /\ ~account.doc.is_active)
                    => Refused(403, "Account is inactive")
              /\ last'.response.status = 403 => correct ]_vars

C6_Witness ==
    /\ last.request.op = "login"
    /\ CorrectPassword(Account(db, last.request.email), last.request.password)
    /\ ~Account(db, last.request.email).doc.is_active
    /\ Account(db, last.request.email).doc.last_login # None
    /\ last.response.status = 403

\* C7: for an active user with two_factor_enabled and the correct password,
\* login issues tokens only for a code that verifies against the stored
\* secret; no code is answered 400 and a code that does not verify 401, and
\* in both cases no token is issued and last_login is not written.
C7_TwoFactorLogin ==
    [][ Answers("login") =>
          LET account == Account(db, last'.request.email)
              correct == CorrectPassword(account, last'.request.password)
              code == last'.request.totp_token
          IN  (correct /\ account.doc.is_active /\ account.doc.two_factor_enabled)
                => /\ last'.response.tokens # {} => CodeVerifies(account, code, now)
                   /\ code = NoCode => Refused(400, "2FA token required")
                   /\ (code # NoCode /\ ~CodeVerifies(account, code, now))
                         => Refused(401, "Invalid 2FA token") ]_vars

\* C8: a successful login stores exactly one refresh-token record (user id,
\* refresh token, expiry) and writes the user's last_login.
C8_LoginPersistsRefreshToken ==
    [][ (Answers("login") /\ last'.response.status = 200) =>
          LET account == Account(db, last'.request.email)
              n == Len(db.refresh_tokens)
          IN  /\ Len(db'.refresh_tokens) = n + 1
              /\ db'.refresh_tokens[n + 1].user_id = account.doc.id
              /\ db'.refresh_tokens[n + 1].token \in last'.response.tokens
              /\ Account(db', last'.request.email).doc.last_login = now ]_vars

\* C9: for a request that passes the gate, verify-2fa sets two_factor_enabled
\* of the calling user, and answers 200, exactly when the code verifies
\* against the stored secret; otherwise it answers 400 and the user store is
\* unchanged.
C9_Verify2FA ==
    [][ (/\ Answers("verify_2fa")
         /\ Resolves(last'.request.credentials, blacklist, now)) =>
          LET caller == Caller(db, last'.request.credentials)
              i == FirstMatch(db.users, Query("id", last'.request.credentials.user_id))
          IN  IF CodeVerifies(caller, last'.request.totp_token, now)
                THEN /\ last'.response.status = 200
                     /\ db' = [db EXCEPT !.users[i].two_factor_enabled = TRUE]
                ELSE /\ last'.response.status = 400
                     /\ db' = db ]_vars

C9_Witness ==
    /\ last.request.op = "verify_2fa"
    /\ last.response.status = 200
    /\ Caller(db, last.request.credentials).found
    /\ Caller(db, last.request.credentials).doc.two_factor_enabled
    /\ CodeVerifies(Caller(db, last.request.credentials), last.request.totp_token, now)

\* C10: for a request that passes the gate, enable-2fa writes the generated
\* secret to two_factor_secret of the calling user and nothing else, so an
\* active user whose two_factor_enabled is false logs in without a code,
\* with or without a stored secret.
C10_Enable2FAFrame ==
    [][ /\ (/\ Answers("enable_2fa")
            /\ Resolves(last'.request.credentials, blacklist, now)) =>
              LET i == FirstMatch(db.users, Query("id", last'.request.credentials.user_id))
              IN  /\ last'.response.status = 200
                  /\ db' = IF Caller(db, last'.request.credentials).found
                             THEN [db EXCEPT !.users[i].two_factor_secret =
                                                 last'.request.secret]
                             ELSE db
        /\ (Answers("login") /\ last'.request.totp_token = NoCode) =>
              LET account == Account(db, last'.request.email)
              IN  (/\ CorrectPassword(account, last'.request.password)
                   /\ account.doc.is_active
                   /\ ~account.doc.two_factor_enabled)
                    => (last'.response.status = 200 /\ last'.response.tokens # {}) ]_vars

C10_Witness ==
    /\ last.request.op = "login"
    /\ last.request.totp_token = NoCode
    /\ last.response.status = 200
    /\ Account(db, last.request.email).found
    /\ Account(db, last.request.email).doc.two_factor_secret # None
    /\ ~Account(db, last.request.email).doc.two_factor_enabled

\* C11: no two records of the users collection have the same email,
\* whatever the interleaving of the register requests.
C11_UniqueEmails ==
    \A i, j \in 1..Len(db.users) :
        i # j => db.users[i].email # db.users[j].email

\* C12: no user document in the response of register, GET /auth/me,
\* GET /users/ or GET /users/{id} has a password_hash field.
C12_NoPasswordHash ==
    last.request.op \in {"register", "me", "list_users", "get_user"} =>
        \A i \in 1..Len(last.response.data) :
            "password_hash" \notin DOMAIN last.response.data[i]

C12_Witness ==
    /\ last.request.op \in {"list_users", "get_user"}
    /\ last.response.status = 200
    /\ Len(last.response.data) = 1
    /\ last.response.data[1].id = db.users[1].id
    /\ "password_hash" \in DOMAIN db.users[1]
    /\ db.users[1].two_factor_secret # None

\* the invocations of the route that were let in by the gate for document 1
Admitted(op) ==
    {c \in 1..Len(calls) : /\ calls[c].op = op
                          /\ calls[c].request.body # NoBody
                          /\ calls[c].request.body[IF op = "allocate_room"
                                                     THEN "room_id" ELSE "book_id"] = 1}

AllDone == \A c \in 1..Len(calls) : calls[c].pc = "done"

\* C13: when N admitted allocate_room requests for the room with one free
\* bed have all been answered, exactly one was answered 201 and the other
\* N-1 were answered 400, whatever the interleaving.
C13_OneAllocationPerBed ==
    (/\ AllDone
     /\ Admitted("allocate_room") # {}
     /\ find_one(database_type, db, "dormitory_rooms", Query("id", 1)).found)
    => /\ Cardinality({c \in Admitted("allocate_room") : calls[c].status = 201}) = 1
       /\ \A c \in Admitted("allocate_room") : calls[c].status \in {201, 400}

\* the borrow_book invocations that passed the availability check / that
\* have inserted their loan / that were answered 201
BorrowPassed == {c \in Admitted("borrow_book") : calls[c].seen # NoBody}
BorrowInserted == {c \in BorrowPassed : calls[c].pc \in {"inserted", "done"}}
BorrowAnswered == {c \in BorrowPassed : calls[c].pc = "done"}

\* C14: the availability check and the decrement are separate steps: every
\* request that passed the check inserts its loan without a second check,
\* and the stored available_copies is the count a request read minus one, so
\* it reflects one decrement however many loans were inserted (which can
\* be more than the book has copies).
C14_BorrowNotAtomic ==
    LET book == find_one(database_type, db, "library_books", Query("id", 1))
    IN  book.found =>
          /\ Len(db.library_loans) = Cardinality(BorrowInserted)
          /\ \A c \in BorrowPassed : calls[c].seen.available_copies = BookCopies
          /\ book.doc.available_copies =
                IF BorrowAnswered = {} THEN BookCopies ELSE BookCopies - 1

C14_Witness ==
    /\ AllDone
    /\ Cardinality(BorrowAnswered) = 2
    /\ Len(db.library_loans) = 2
    /\ Len(db.library_loans) > BookCopies
    /\ find_one(database_type, db, "library_books", Query("id", 1)).doc.available_copies
          = BookCopies - 1

\* C15: for every sequence of adapter calls, every find_one, find_many,
\* update_one and delete_one returns the same on the MongoDB adapter and on
\* the PostgreSQL adapter (the ids insert_one generates are not compared).
C15_AdaptersEquivalent ==
    answer.op \in {"find_one", "find_many", "update_one", "delete_one"} =>
        answer.value["mongodb"] = answer.value["postgresql"]

\* the indices of the documents a step changed in the store of an adapter
Modified(dbtype, collection) ==
    {i \in 1..Len(stores[dbtype][collection]) :
        stores'[dbtype][collection][i] # stores[dbtype][collection][i]}

\* C16: update_one returns true exactly when the call modified one document,
\* which matched the query; it returns false when no document matches, and
\* it never modifies more than one document (nor adds or removes one).
C16_UpdateOneResult ==
    [][ answer'.op = "update_one" =>
          \A dbtype \in DatabaseTypes :
              LET before == stores[dbtype][answer'.args.collection]
                  after == stores'[dbtype][answer'.args.collection]
                  modified == Modified(dbtype, answer'.args.collection)
              IN  /\ Len(after) = Len(before)
                  /\ Cardinality(modified) <= 1
                  /\ \A i \in modified : Matches(before[i], answer'.args.query)
                  /\ answer'.value[dbtype].ok <=> Cardinality(modified) = 1
                  /\ (\A i \in 1..Len(before) : ~Matches(before[i], answer'.args.query))
                        => ~answer'.value[dbtype].ok ]_vars

C16_Witness ==
    /\ answer.op = "update_one"
    /\ answer.value["mongodb"].ok
    /\ answer.args.query.field = "id"
    /\ Len(stores["mongodb"].users) = 2
    /\ \A i \in 1..2 : Matches(stores["mongodb"].users[i], answer.args.query)
    /\ stores["mongodb"].users[1].tag = answer.args.update.tag
    /\ stores["mongodb"].users[2].tag # answer.args.update.tag

\* C17: POST /auth/register inserts a user and answers 201 only when the role
\* is a defined role, the email is unused and the password passes
\* validate_password_strength; when one of the three checks fails it answers
\* 400 and the users collection is unchanged; a stored record keeps a hash
\* and no plaintext password.
C17_RegisterChecks ==
    [][ (last = Idle /\ last'.request.op = "register") =>
          LET request == last'.request
              passes ==
                  /\ request.role \in valid_roles
                  /\ ~find_one(database_type, db, "users",
                               Query("email", request.email)).found
                  /\ validate_password_strength(request.password).ok
          IN  /\ (last'.response.status = 201 \/ db'.users # db.users) => passes
              /\ ~passes => (last'.response.status = 400 /\ db'.users = db.users)
              /\ \A i \in 1..Len(db'.users) :
                    /\ "password" \notin DOMAIN db'.users[i]
                    /\ db'.users[i].password_hash.alg = "bcrypt" ]_vars

\* C18: decode_token returns claims only for a signed, unexpired token, and
\* they are the claims given to create_access_token plus exp, iat and
\* type = "access"; once the ttl has elapsed it fails with the expired-token
\* error, and every other verification failure is the invalid-token error 401.
C18_DecodeToken ==
    answer.op = "decode_token" =>
        LET token == answer.args.token
            decoded == answer.value
        IN  /\ decoded.kind = "ok" =>
                  /\ token \in tokens
                  /\ token.exp > answer.args.now
                  /\ \E data \in ClaimSets :
                        decoded.payload =
                            [user_id |-> data.user_id, email |-> data.email,
                             role |-> data.role, type |-> "access",
                             iat |-> decoded.payload.iat,
                             exp |-> decoded.payload.iat + JWT_ACCESS_TOKEN_EXPIRE_MINUTES]
            /\ (token \in tokens /\ token.iat + JWT_ACCESS_TOKEN_EXPIRE_MINUTES <= answer.args.now)
                  => (decoded.status = 401 /\ decoded.detail = "Token has expired")
            /\ token \notin tokens
                  => (decoded.status = 401 /\ decoded.detail = "Could not validate credentials")

\* C19: validate_password_strength returns (true, "Password is strong")
\* exactly when the password has at least PASSWORD_MIN_LENGTH characters, an
\* uppercase letter, a digit and a symbol of the punctuation set; otherwise
\* it returns false with the reason of the first failing check in the order
\* length, uppercase, digit, symbol.
C19_PasswordStrength ==
    answer.op = "validate_password_strength" =>
        LET password == answer.args.password
            chars == {password[i] : i \in 1..Len(password)}
            long == Len(password) >= PASSWORD_MIN_LENGTH
            upper == chars \cap UpperChars # {}
            digit == chars \cap DigitChars # {}
            symbol == chars \cap SpecialChars # {}
        IN  /\ answer.value.ok <=> (long /\ upper /\ digit /\ symbol)
            /\ answer.value.ok => answer.value.message = "Password is strong"
            /\ ~long =>
                  answer.value.message = "Password must be at least 8 characters"
            /\ (long /\ ~upper) =>
                  answer.value.message = "Password must contain at least one uppercase letter"
            /\ (long /\ upper /\ ~digit) =>
                  answer.value.message = "Password must contain at least one number"
            /\ (long /\ upper /\ digit /\ ~symbol) =>
                  answer.value.message = "Password must contain at least one special character"

C19_Witness ==
    /\ answer.op = "validate_password_strength"
    /\ Len(answer.args.password) >= PASSWORD_MIN_LENGTH
    /\ \A i \in 1..Len(answer.args.password) :
          answer.args.password[i] \notin UpperChars \cup DigitChars \cup SpecialChars
    /\ answer.value =
          [ok |-> FALSE, message |-> "Password must contain at least one uppercase letter"]

\* C20: POST /auth/refresh accepts a signed, unexpired refresh token every
\* time it is presented, whoever has logged out, and answers with an access
\* and a refresh token carrying the same user_id, email and role; neither
\* refresh nor logout reads or changes the database or the blacklist.
C20_RefreshNeverRevoked ==
    [][ /\ (last = Idle /\ last'.request.op = "refresh") =>
              LET refresh_token == last'.request.credentials
                  issued == last'.response.tokens
                  valid == /\ refresh_token.form = "signed"
                           /\ refresh_token.type = "refresh"
                           /\ refresh_token.exp > now
              IN  /\ valid =>
                        /\ last'.response.status = 200
                        /\ {token.type : token \in issued} = {"access", "refresh"}
                        /\ \A token \in issued :
                              /\ token.form = "signed"
                              /\ token.iat = now
                              /\ token.user_id = refresh_token.user_id
                              /\ token.email = refresh_token.email
                              /\ token.role = refresh_token.role
                  /\ ~valid => (last'.response.status = 401 /\ issued = {})
                  /\ UNCHANGED <<db, blacklist>>
        /\ (last = Idle /\ last'.request.op = "logout") => UNCHANGED <<db, blacklist>>
      ]_vars

C20_Witness ==
    /\ last.request.op = "refresh"
    /\ last.response.status = 200
    /\ last.request.credentials.iat < now
    /\ last.request.credentials \notin last.response.tokens
    /\ \E token \in logged_out : token.user_id = last.request.credentials.user_id

\* C21: the role gates are exact allow-lists.  DELETE /users/{id} runs its
\* handler only for a token of role superadmin and POST /classes/ only for
\* role admin or headmaster; a resolving token of any other role is answered
\* 403 and nothing is stored or deleted.
C21_ExactAllowLists ==
    [][ \A op \in {"delete_user", "create_class"} :
          Answers(op) =>
            LET credentials == last'.request.credentials
                allowed == IF op = "delete_user" THEN {SUPERADMIN} ELSE {ADMIN, HEADMASTER}
                resolves == Resolves(credentials, blacklist, now)
            IN  /\ (resolves /\ credentials.role \in allowed)
                      => last'.response.status \in {200, 201, 404}
                /\ (resolves /\ credentials.role \notin allowed)
                      => (last'.response.status = 403 /\ db' = db)
                /\ (last'.response.status \in {200, 201, 404} \/ db' # db)
                      => (resolves /\ credentials.role \in allowed) ]_vars

C21_Witness ==
    /\ last.request.op = "create_class"
    /\ last.request.credentials = RoleToken(SUPERADMIN)
    /\ last.response.status = 403
    /\ Len(db.classes) = 1

\* C22: when the gateway call of POST /finance/payments fails, the answer is
\* 500 and no payment record is inserted; a payment record with status
\* "pending" exists only for a gateway call that succeeded.
C22_GatewayFailure ==
    [][ (Answers("create_payment") /\ Resolves(last'.request.credentials, blacklist, now)
            /\ last'.request.network = "down"
            /\ settings.PAYMENT_GATEWAY \in {"midtrans", "xendit"}
            /\ find_one(database_type, db, "invoices",
                        Query("id", last'.request.invoice_id)).found)
          => (last'.response.status = 500 /\ db'.payments = db.payments) ]_vars

\* C23: with DEBUG off, no response with status 500 carries the text of the
\* internal exception, whether it comes from the global exception handler
\* or from a route handler's own 500.
C23_NoLeakInProduction ==
    (~settings.DEBUG /\ last.request.op \in {"create_payment", "payment_webhook"}
        /\ last.response.status = 500)
      => last.response.exception = ""

\* C30: POST /finance/webhooks/payment answers 401 "Invalid webhook
\* signature" whenever verify_webhook returns false, and 500 only when the
\* processing itself raises.
C30_WebhookSignature ==
    last.request.op = "payment_webhook" =>
        LET gateway == get_payment_gateway(settings)
            is_valid == verify_webhook(gateway.gateway, last.request.payload[1],
                                       last.request.signature)
            raises == gateway.kind = "error" \/ is_valid.kind = "error"
        IN  /\ (~raises /\ ~is_valid.valid)
                  => (last.response.status = 401
                      /\ last.response.detail = "Invalid webhook signature")
            /\ last.response.status = 500 => raises

\* C24: whenever a user has two_factor_enabled = true, the stored
\* two_factor_secret is one a successful verify-2fa confirmed: a step leaves
\* 2FA active on a record only if it is a successful verify-2fa of that user
\* or the record was active with the same secret before the step.
C24_ActiveSecretVerified ==
    [][ \A i \in 1..Len(db'.users) :
          db'.users[i].two_factor_enabled =>
            \/ /\ Answers("verify_2fa")
               /\ last'.response.status = 200
               /\ last'.request.credentials.user_id = db'.users[i].id
            \/ /\ i <= Len(db.users)
               /\ db.users[i].id = db'.users[i].id
               /\ db.users[i].two_factor_enabled
               /\ db.users[i].two_factor_secret = db'.users[i].two_factor_secret ]_vars

\* C25: POST /auth/register needs no token and stores the role the caller
\* supplied when it is one of the nine roles; the tokens login issues carry
\* the stored role; and DELETE /users/{id} runs its handler for a resolving
\* token of role superadmin: a caller without an account reaches the
\* superadmin gate by register, login, delete.
C25_SelfServiceSuperadmin ==
    [][ /\ (Answers("register") /\ last'.response.status = 201) =>
              /\ last'.request.credentials = Missing
              /\ last'.request.role \in valid_roles
              /\ last'.response.data[1].role = last'.request.role
              /\ database_type = "mongodb" =>
                    Account(db', last'.request.email).doc.role = last'.request.role
        /\ (Answers("login") /\ last'.response.status = 200) =>
              \A token \in last'.response.tokens :
                  token.role = Account(db, last'.request.email).doc.role
        /\ (Answers("delete_user")
               /\ Resolves(last'.request.credentials, blacklist, now)
               /\ last'.request.credentials.role = SUPERADMIN) =>
              last'.response.status \in {200, 404} ]_vars

C25_Witness ==
    /\ last.request.op = "delete_user"
    /\ last.request.credentials \in tokens
    /\ last.request.credentials.role = SUPERADMIN
    /\ last.response.status = 200
    /\ db.users = <<>>

\* C26: the gate decides on the token and the blacklist alone.  Whatever
\* the user store holds (the user deactivated, given another role, or
\* deleted), an unexpired access token passes get_current_user, the role
\* gates test the role of the token, and POST /auth/refresh issues a new
\* pair with the claims of the refresh token.
C26_GateIgnoresUserStore ==
    [][ /\ (Answers("logout") /\ Resolves(last'.request.credentials, blacklist, now))
              => last'.response.status = 200
        /\ \A op \in {"update_user", "delete_user"} :
              (Answers(op) /\ Resolves(last'.request.credentials, blacklist, now))
                => (last'.response.status = 403
                      <=> last'.request.credentials.role \notin AllowedRoles(op))
        /\ (Answers("refresh") /\ Unexpired(last'.request.credentials, now)
               /\ last'.request.credentials.type = "refresh")
              => /\ last'.response.status = 200
                 /\ \A token \in last'.response.tokens :
                       /\ token.user_id = last'.request.credentials.user_id
                       /\ token.email = last'.request.credentials.email
                       /\ token.role = last'.request.credentials.role ]_vars

\* the stored user of the credentials differs from the claims, or is gone
Stale(credentials) ==
    /\ database_type = "mongodb"
    /\ credentials \in tokens
    /\ \/ ~Caller(db, credentials).found
       \/ /\ ~Caller(db, credentials).doc.is_active
          /\ Caller(db, credentials).doc.role # credentials.role

C26_Witness ==
    /\ last.request.op = "refresh"
    /\ last.response.status = 200
    /\ last.response.tokens # {}
    /\ Stale(last.request.credentials)
    /\ Caller(db, last.request.credentials).found

\* C27: PATCH /users/{id} never changes the id, password_hash or created_at
\* of any user record, whatever keys the body has; when it succeeds, every
\* other key of the body is written to the matched record with the body's
\* value, the fields the body does not name stay, and no other record
\* changes; when it does not succeed nothing changes.
C27_PatchFrame ==
    [][ Answers("update_user") =>
          LET body == last'.request.body
              matched == FirstMatch(db.users, Query("id", last'.request.user_id))
              kept == {"id", "password_hash", "created_at"}
          IN  /\ Len(db'.users) = Len(db.users)
              /\ \A i \in 1..Len(db.users) :
                    \A f \in kept : db'.users[i][f] = db.users[i][f]
              /\ last'.response.status # 200 => db' = db
              /\ last'.response.status = 200 =>
                    /\ matched # 0
                    /\ \A f \in DOMAIN body \ kept :
                          db'.users[matched][f] = body[f]
                    /\ \A f \in DOMAIN db.users[matched] \ DOMAIN body :
                          db'.users[matched][f] = db.users[matched][f]
                    /\ \A i \in 1..Len(db.users) :
                          i # matched => db'.users[i] = db.users[i] ]_vars

C27_Witness ==
    /\ last.request.op = "update_user"
    /\ last.response.status = 200
    /\ "password_hash" \in DOMAIN last.request.body
    /\ \E i \in 1..Len(db.users) :
          /\ db.users[i].id = last.request.user_id
          /\ db.users[i].password_hash # last.request.body.password_hash
          /\ db.users[i].two_factor_secret = last.request.body.two_factor_secret

\* C28: PATCH /users/{id} answers 404 "User not found" only when no user
\* with that id exists; for an existing user it answers success for every
\* body, also one whose values are the stored ones or that names protected
\* fields only.
C28_PatchNotFound ==
    [][ (Answers("update_user") /\ Resolves(last'.request.credentials, blacklist, now)
            /\ last'.request.credentials.role \in AllowedRoles("update_user"))
          => (last'.response.status = 404
                <=> FirstMatch(db.users, Query("id", last'.request.user_id)) = 0) ]_vars

\* C29: over any sequence of borrow_book and return_book requests, the
\* book's available_copies plus the number of its loans not yet returned
\* stays equal to the initial number of copies: a loan gives back one copy,
\* once.
C29_CopiesConserved ==
    \A i \in 1..Len(db.library_books) :
        LET book == db.library_books[i]
            out == {j \in 1..Len(db.library_loans) :
                      /\ db.library_loans[j].book_id = book.id
                      /\ "status" \notin DOMAIN db.library_loans[j]}
        IN  book.available_copies + Cardinality(out) = BookCopies

====
